---- MODULE Spec2Model ----
(***************************************************************************)
(* Connector I/O core of pathway-0.13.0 (src/connectors/data_storage.rs):  *)
(* offsets and frontier merge, the filesystem scanner with its line/full   *)
(* and delimited readers, and the message-bus, object-store,               *)
(* external-subject and embedded-SQL readers.                              *)
(*                                                                         *)
(* Option<T> is a sequence of length 0 (None) or 1 (Some).                 *)
(***************************************************************************)
EXTENDS Integers, Sequences, FiniteSets, TLC

None == <<>>
Some(x) == <<x>>
IsSome(o) == o /= <<>>
Unwrap(o) == o[1]

RECURSIVE SeqOfSet(_)
SeqOfSet(S) == IF S = {} THEN <<>>
               ELSE LET x == CHOOSE y \in S : TRUE IN <<x>> \o SeqOfSet(S \ {x})

---------------------------------------------------------------------------
(* Bounds of the model.                                                    *)

\* greatest position (entries read, bus offset, sequential id) in a merged frontier
MaxPosition == 2
\* most results one reader returns before the run is cut
MaxReads == 9
\* most changes other processes make to the watched files
MaxChanges == 2
\* changes made to the watched files of a reader that is restarted
MaxLateChanges == 1
\* greatest offset of a message in a partition of the bus
MaxOffset == 3
\* most messages the bus consumer is polled for
MaxPolls == 4
\* calls of read() on the external-subject reader
MaxSubjectCalls == 3

---------------------------------------------------------------------------
(* Offsets: OffsetKey, OffsetValue, OffsetAntichain.                       *)

Paths == {"a", "b"}

KeyEmpty == [kind |-> "Empty", topic |-> "", partition |-> 0]
KeyKafka(topic, partition) == [kind |-> "Kafka", topic |-> topic, partition |-> partition]

FilePosition(total_entries_read, path, bytes_offset) ==
    [variant |-> "FilePosition", total_entries_read |-> total_entries_read,
     path |-> path, bytes_offset |-> bytes_offset, position |-> 0]
S3ObjectPosition(total_entries_read, path, bytes_offset) ==
    [variant |-> "S3ObjectPosition", total_entries_read |-> total_entries_read,
     path |-> path, bytes_offset |-> bytes_offset, position |-> 0]
KafkaOffset(position) ==
    [variant |-> "KafkaOffset", total_entries_read |-> 0,
     path |-> "", bytes_offset |-> 0, position |-> position]
PythonEntrySequentialId(position) ==
    [variant |-> "PythonEntrySequentialId", total_entries_read |-> 0,
     path |-> "", bytes_offset |-> 0, position |-> position]

\* the constant offset carried by every embedded-SQL Data event
EMPTY_OFFSET ==
    [key |-> KeyEmpty,
     value |-> [variant |-> "Empty", total_entries_read |-> 0,
                path |-> "", bytes_offset |-> 0, position |-> 0]]

\* OffsetAntichain: a map from offset key to offset value
EmptyAntichain == [k \in {} |-> KafkaOffset(0)]
get_offset(frontier, offset_key) ==
    IF offset_key \in DOMAIN frontier THEN Some(frontier[offset_key]) ELSE None
advance_offset(frontier, offset_key, offset_value) ==
    [k \in DOMAIN frontier \cup {offset_key} |->
        IF k = offset_key THEN offset_value ELSE frontier[k]]

\* the component an offset value is ordered by
OrderOf(v) == IF v.variant \in {"FilePosition", "S3ObjectPosition"}
              THEN v.total_entries_read ELSE v.position

---------------------------------------------------------------------------
(* Reader::merge_two_frontiers                                             *)

\* faulty variant: the comparison is inverted, the smaller position wins
MergeEntryMin(result, offset_key, other_value) ==
    LET found == get_offset(result, offset_key) IN
    IF IsSome(found)
    THEN LET offset_value == Unwrap(found) IN
         IF offset_value.variant = other_value.variant
            /\ OrderOf(other_value) < OrderOf(offset_value)
         THEN advance_offset(result, offset_key, other_value)
         ELSE result
    ELSE advance_offset(result, offset_key, other_value)

\* faulty variant: incomparable variants are overwritten by the right-hand value
MergeEntryOverwrite(result, offset_key, other_value) ==
    LET found == get_offset(result, offset_key) IN
    IF IsSome(found)
    THEN LET offset_value == Unwrap(found) IN
         IF offset_value.variant /= other_value.variant
            \/ OrderOf(other_value) > OrderOf(offset_value)
         THEN advance_offset(result, offset_key, other_value)
         ELSE result
    ELSE advance_offset(result, offset_key, other_value)

\* faulty variant: the comparison is dropped, a key present on both sides takes the right-hand value
MergeEntryAlways(result, offset_key, other_value) ==
    advance_offset(result, offset_key, other_value)

\* one iteration of the loop over rhs
MergeEntry(result, offset_key, other_value) ==
    LET found == get_offset(result, offset_key) IN
    IF IsSome(found)
    THEN LET offset_value == Unwrap(found) IN
         CASE offset_value.variant = "KafkaOffset" /\ other_value.variant = "KafkaOffset" ->
                IF other_value.position > offset_value.position
                THEN advance_offset(result, offset_key, other_value) ELSE result
           [] offset_value.variant = "PythonEntrySequentialId"
              /\ other_value.variant = "PythonEntrySequentialId" ->
                IF other_value.position > offset_value.position
                THEN advance_offset(result, offset_key, other_value) ELSE result
           [] offset_value.variant = "FilePosition" /\ other_value.variant = "FilePosition" ->
                IF other_value.total_entries_read > offset_value.total_entries_read
                THEN advance_offset(result, offset_key, other_value) ELSE result
           [] offset_value.variant = "S3ObjectPosition"
              /\ other_value.variant = "S3ObjectPosition" ->
                IF other_value.total_entries_read > offset_value.total_entries_read
                THEN advance_offset(result, offset_key, other_value) ELSE result
           [] OTHER -> result   \* error!("Incomparable offsets in the frontier")
    ELSE advance_offset(result, offset_key, other_value)

RECURSIVE MergeLoop(_, _, _)
MergeLoop(result, rhs, keys) ==
    IF keys = <<>> THEN result
    ELSE MergeLoop(MergeEntry(result, keys[1], rhs[keys[1]]), rhs, Tail(keys))

merge_two_frontiers(lhs, rhs) == MergeLoop(lhs, rhs, SeqOfSet(DOMAIN rhs))

---------------------------------------------------------------------------
(* The file system seen by the filesystem scanner: the files matched by    *)
(* the glob, and the files of the scanner's cache directory.  A file is    *)
(* [mtime, content]; mtime counts ticks, TicksPerSec of them to a second;  *)
(* content is a sequence of bytes.                                         *)

\* ticks per second: SystemTime is finer than the whole seconds kept in known_files
TicksPerSec == 2
\* greatest modification time, in ticks
MaxTime == 3
Times == 1..MaxTime

NL == "\n"
ContentHX == <<"h", NL, "x", NL>>
ContentY == <<"y">>
Contents == {ContentHX, ContentY}

PathOrd(p) == CASE p = "a" -> 1 [] p = "b" -> 2 [] OTHER -> 0
\* (SystemTime, Path) tuples, compared lexicographically
TupleLess(t1, p1, t2, p2) == t1 < t2 \/ (t1 = t2 /\ PathOrd(p1) < PathOrd(p2))
TupleLeq(t1, p1, t2, p2) == t1 < t2 \/ (t1 = t2 /\ PathOrd(p1) <= PathOrd(p2))

CacheName(p) == CASE p = "a" -> "cache/a" [] p = "b" -> "cache/b" [] OTHER -> "cache/"
CachePaths == {CacheName(p) : p \in Paths}
Names == Paths \cup CachePaths

Exists(disk, name) == IsSome(disk[name])
\* Duration::as_secs of the time since the epoch
as_secs(mtime) == mtime \div TicksPerSec

\* SourceMetadata::from_fs_meta: the path and the modification time in seconds
from_fs_meta(path, file) == [path |-> path, modified_at |-> as_secs(file.mtime)]

---------------------------------------------------------------------------
(* ReadResult                                                              *)

NoOffset == None
Finished ==
    [kind |-> "Finished", commit_allowed |-> FALSE, metadata |-> None,
     event |-> "", payload |-> <<>>, offset |-> NoOffset]
NewSource(metadata) ==
    [kind |-> "NewSource", commit_allowed |-> FALSE, metadata |-> metadata,
     event |-> "", payload |-> <<>>, offset |-> NoOffset]
FinishedSource(commit_allowed) ==
    [kind |-> "FinishedSource", commit_allowed |-> commit_allowed, metadata |-> None,
     event |-> "", payload |-> <<>>, offset |-> NoOffset]
Data(event, payload, offset_key, offset_value) ==
    [kind |-> "Data", commit_allowed |-> FALSE, metadata |-> None,
     event |-> event, payload |-> payload,
     offset |-> Some([key |-> offset_key, value |-> offset_value])]
\* read() returned Err(ReadError), or the thread panicked
ReadErr(what) ==
    [kind |-> "Err", commit_allowed |-> FALSE, metadata |-> None,
     event |-> what, payload |-> <<>>, offset |-> NoOffset]
Panic(what) ==
    [kind |-> "Panic", commit_allowed |-> FALSE, metadata |-> None,
     event |-> what, payload |-> <<>>, offset |-> NoOffset]

---------------------------------------------------------------------------
(* FilesystemScanner.  sc is the struct, a record with the fields          *)
(* streaming_mode, cache_directory_path (whether one exists), known_files, *)
(* current_action, cached_modify_times, next_file_for_insertion and        *)
(* cached_metadata; maps are functions on the paths they hold.             *)

EmptyMap == [p \in {} |-> 0]
MapInsert(m, k, v) == [x \in DOMAIN m \cup {k} |-> IF x = k THEN v ELSE m[x]]
MapRemove(m, k) == [x \in DOMAIN m \ {k} |-> m[x]]

\* faulty variant: no mode polls
is_polling_enabled_never(streaming_mode) == FALSE

is_polling_enabled(streaming_mode) == streaming_mode = "Streaming"
are_deletions_enabled(streaming_mode) == streaming_mode = "Streaming"

FilesystemScanner_new(streaming_mode) ==
    [streaming_mode |-> streaming_mode,
     cache_directory_path |-> are_deletions_enabled(streaming_mode),
     known_files |-> EmptyMap,
     current_action |-> None,
     cached_modify_times |-> EmptyMap,
     next_file_for_insertion |-> None,
     cached_metadata |-> EmptyMap]

ActionRead(path) == [action |-> "Read", path |-> path]
ActionDelete(path) == [action |-> "Delete", path |-> path]

\* faulty variant: no insertion is ever taken to be planned
has_planned_insertion_never(sc) == FALSE

has_planned_insertion(sc) == IsSome(sc.next_file_for_insertion)

data_event_type(sc) ==
    IF IsSome(sc.current_action)
    THEN Some(IF Unwrap(sc.current_action).action = "Read" THEN "Insert" ELSE "Delete")
    ELSE None

cached_file_path(sc, path) ==
    IF sc.cache_directory_path THEN Some(CacheName(path)) ELSE None

current_file(sc) ==
    IF IsSome(sc.current_action)
    THEN LET act == Unwrap(sc.current_action) IN
         IF act.action = "Read" THEN Some(act.path) ELSE cached_file_path(sc, act.path)
    ELSE None

current_offset_file(sc) ==
    IF IsSome(sc.current_action) THEN Some(Unwrap(sc.current_action).path) ELSE None

\* glob of the pattern: the regular files that exist
get_matching_file_paths(disk) == {p \in Paths : Exists(disk, p)}

\* modify_time of an existing entry, and the scanner with its memo updated
modify_time_value(sc, disk, entry) ==
    IF are_deletions_enabled(sc.streaming_mode)
    THEN Some(Unwrap(disk[entry]).mtime)
    ELSE IF entry \in DOMAIN sc.cached_modify_times
         THEN sc.cached_modify_times[entry]
         ELSE Some(Unwrap(disk[entry]).mtime)
modify_time_memo(sc, disk, entries) ==
    IF are_deletions_enabled(sc.streaming_mode)
    THEN sc
    ELSE [sc EXCEPT !.cached_modify_times =
            [p \in DOMAIN sc.cached_modify_times \cup entries |->
                IF p \in DOMAIN sc.cached_modify_times
                THEN sc.cached_modify_times[p]
                ELSE Some(Unwrap(disk[p]).mtime)]]

Ok(sc, disk, val) == [tag |-> "Ok", sc |-> sc, disk |-> disk, val |-> val]
Failed(tag, sc, disk, what) == [tag |-> tag, sc |-> sc, disk |-> disk, val |-> Some(what)]

\* faulty variant: the file is not entered into known_files
initiate_file_insertion_forgets(sc, disk, new_file_name) ==
    IF ~Exists(disk, new_file_name)
    THEN Failed("Err", sc, disk, "Io")      \* std::fs::metadata(new_file_name)?
    ELSE
    LET new_file_meta == from_fs_meta(new_file_name, Unwrap(disk[new_file_name]))
        cached_path == cached_file_path(sc, new_file_name)
        disk1 == IF IsSome(cached_path)
                 THEN [disk EXCEPT ![Unwrap(cached_path)] = disk[new_file_name]]
                 ELSE disk
        sc1 == [sc EXCEPT
                 !.cached_metadata = MapInsert(@, new_file_name, Some(new_file_meta)),
                 !.current_action = Some(ActionRead(new_file_name))]
    IN Ok(sc1, disk1, Some(NewSource(Some(new_file_meta))))

initiate_file_insertion(sc, disk, new_file_name) ==
    IF ~Exists(disk, new_file_name)
    THEN Failed("Err", sc, disk, "Io")      \* std::fs::metadata(new_file_name)?
    ELSE
    LET new_file_meta == from_fs_meta(new_file_name, Unwrap(disk[new_file_name]))
        cached_path == cached_file_path(sc, new_file_name)
        disk1 == IF IsSome(cached_path)
                 THEN [disk EXCEPT ![Unwrap(cached_path)] = disk[new_file_name]]
                 ELSE disk
        sc1 == [sc EXCEPT
                 !.cached_metadata = MapInsert(@, new_file_name, Some(new_file_meta)),
                 !.known_files = MapInsert(@, new_file_name, new_file_meta.modified_at),
                 !.current_action = Some(ActionRead(new_file_name))]
    IN Ok(sc1, disk1, Some(NewSource(Some(new_file_meta))))

\* the candidates of next_insertion_entry, and the least of them in (mtime, path)
InsertionCandidates(sc, disk) ==
    {p \in get_matching_file_paths(disk) :
        p \notin DOMAIN sc.known_files /\ IsSome(modify_time_value(sc, disk, p))}

\* faulty variant: the candidate with the greatest (mtime, path) is selected
next_insertion_entry_newest(sc, disk) ==
    LET examined == get_matching_file_paths(disk) \ DOMAIN sc.known_files
        cands == InsertionCandidates(sc, disk)
        mt(p) == Unwrap(modify_time_value(sc, disk, p))
        sc1 == modify_time_memo(sc, disk, examined)
    IN IF cands = {} THEN Ok(sc1, disk, None)
       ELSE LET selected == CHOOSE p \in cands :
                               \A q \in cands : TupleLeq(mt(q), q, mt(p), p)
            IN initiate_file_insertion(sc1, disk, selected)

next_insertion_entry(sc, disk) ==
    LET examined == get_matching_file_paths(disk) \ DOMAIN sc.known_files
        cands == InsertionCandidates(sc, disk)
        mt(p) == Unwrap(modify_time_value(sc, disk, p))
        sc1 == modify_time_memo(sc, disk, examined)
    IN IF cands = {} THEN Ok(sc1, disk, None)
       ELSE LET selected == CHOOSE p \in cands :
                               \A q \in cands : TupleLeq(mt(p), p, mt(q), q)
            IN initiate_file_insertion(sc1, disk, selected)

needs_deletion(sc, disk, path) ==
    IF ~Exists(disk, path) THEN TRUE
    ELSE as_secs(Unwrap(disk[path]).mtime) /= sc.known_files[path]

\* faulty variant: the greatest of the paths that need deletion
path_for_deletion_greatest(sc, disk) ==
    LET cands == {p \in DOMAIN sc.known_files : needs_deletion(sc, disk, p)}
    IN IF cands = {} THEN None
       ELSE Some(CHOOSE p \in cands : \A q \in cands : PathOrd(p) >= PathOrd(q))

\* the path the loop of next_deletion_entry is left with
path_for_deletion(sc, disk) ==
    LET cands == {p \in DOMAIN sc.known_files : needs_deletion(sc, disk, p)}
    IN IF cands = {} THEN None
       ELSE Some(CHOOSE p \in cands : \A q \in cands : PathOrd(p) <= PathOrd(q))

\* The loops of the two selections, run over the entries in the order in which
\* the glob, or the iteration over the hash map known_files, hands them out.

\* faulty variant: every candidate replaces the one selected before it
selected_file_step_latest(sc, disk, selected_file, entry) ==
    IF entry \in DOMAIN sc.known_files THEN selected_file
    ELSE IF ~IsSome(modify_time_value(sc, disk, entry)) THEN selected_file
    ELSE Some(entry)

\* one turn of the loop of next_insertion_entry
selected_file_step(sc, disk, selected_file, entry) ==
    IF entry \in DOMAIN sc.known_files THEN selected_file
    ELSE IF ~IsSome(modify_time_value(sc, disk, entry)) THEN selected_file
    ELSE IF ~IsSome(selected_file) THEN Some(entry)
    ELSE LET selected_name == Unwrap(selected_file)
             selected_created_at == Unwrap(modify_time_value(sc, disk, selected_name))
             modify_time == Unwrap(modify_time_value(sc, disk, entry))
         IN IF TupleLess(modify_time, entry, selected_created_at, selected_name)
            THEN Some(entry)
            ELSE selected_file

RECURSIVE selected_file_loop(_, _, _, _)
selected_file_loop(sc, disk, selected_file, entries) ==
    IF entries = <<>> THEN selected_file
    ELSE selected_file_loop(sc, disk,
                            selected_file_step(sc, disk, selected_file, Head(entries)),
                            Tail(entries))

\* one turn of the loop of next_deletion_entry
path_for_deletion_step(sc, disk, path_for_deletion_so_far, path) ==
    IF ~needs_deletion(sc, disk, path) THEN path_for_deletion_so_far
    ELSE IF ~IsSome(path_for_deletion_so_far) THEN Some(path)
    ELSE IF PathOrd(Unwrap(path_for_deletion_so_far)) > PathOrd(path) THEN Some(path)
    ELSE path_for_deletion_so_far

RECURSIVE path_for_deletion_loop(_, _, _, _)
path_for_deletion_loop(sc, disk, path_for_deletion_so_far, entries) ==
    IF entries = <<>> THEN path_for_deletion_so_far
    ELSE path_for_deletion_loop(sc, disk,
                                path_for_deletion_step(sc, disk, path_for_deletion_so_far,
                                                       Head(entries)),
                                Tail(entries))

\* faulty variant: the deletion is opened with the metadata the file has now
next_deletion_entry_current_metadata(sc, disk) ==
    LET selected == path_for_deletion(sc, disk) IN
    IF ~IsSome(selected) THEN Ok(sc, disk, None)
    ELSE LET path == Unwrap(selected) IN
         IF path \notin DOMAIN sc.cached_metadata
         THEN Failed("Panic", sc, disk, "inconsistency between known_files and cached_metadata")
         ELSE LET sc1 == [sc EXCEPT
                            !.cached_metadata = MapRemove(@, path),
                            !.known_files = MapRemove(@, path),
                            !.current_action = Some(ActionDelete(path)),
                            !.next_file_for_insertion =
                                IF Exists(disk, path) THEN Some(path) ELSE @]
              IN Ok(sc1, disk,
                    Some(NewSource(IF Exists(disk, path)
                                   THEN Some(from_fs_meta(path, Unwrap(disk[path])))
                                   ELSE sc.cached_metadata[path])))

\* faulty variant: the deleted path stays in known_files
next_deletion_entry_keeps_known(sc, disk) ==
    LET selected == path_for_deletion(sc, disk) IN
    IF ~IsSome(selected) THEN Ok(sc, disk, None)
    ELSE LET path == Unwrap(selected) IN
         IF path \notin DOMAIN sc.cached_metadata
         THEN Failed("Panic", sc, disk, "inconsistency between known_files and cached_metadata")
         ELSE LET sc1 == [sc EXCEPT
                            !.cached_metadata = MapRemove(@, path),
                            !.current_action = Some(ActionDelete(path)),
                            !.next_file_for_insertion =
                                IF Exists(disk, path) THEN Some(path) ELSE @]
              IN Ok(sc1, disk, Some(NewSource(sc.cached_metadata[path])))

next_deletion_entry(sc, disk) ==
    LET selected == path_for_deletion(sc, disk) IN
    IF ~IsSome(selected) THEN Ok(sc, disk, None)
    ELSE LET path == Unwrap(selected) IN
         IF path \notin DOMAIN sc.cached_metadata
         THEN Failed("Panic", sc, disk, "inconsistency between known_files and cached_metadata")
         ELSE LET sc1 == [sc EXCEPT
                            !.cached_metadata = MapRemove(@, path),
                            !.known_files = MapRemove(@, path),
                            !.current_action = Some(ActionDelete(path)),
                            !.next_file_for_insertion =
                                IF Exists(disk, path) THEN Some(path) ELSE @]
              IN Ok(sc1, disk, Some(NewSource(sc.cached_metadata[path])))

\* the end of next_action_determined: a deletion if one was found, else an insertion
\* faulty variant: a new file is inserted before a pending deletion is served
deletion_or_insertion_new_first(sc, disk, deletion) ==
    LET insertion == next_insertion_entry(sc, disk)
    IN IF insertion.tag /= "Ok" \/ IsSome(insertion.val)
       THEN insertion
       ELSE deletion

deletion_or_insertion(sc, disk, deletion) ==
    IF deletion.tag /= "Ok" \/ IsSome(deletion.val)
    THEN deletion
    ELSE next_insertion_entry(sc, disk)

\* faulty variant: a planned file that has vanished stays planned
next_action_planned_keeps_plan(sc, disk, planned) ==
    IF IsSome(planned)
    THEN IF Exists(disk, Unwrap(planned))
         THEN initiate_file_insertion(sc, disk, Unwrap(planned))
         ELSE Ok([sc EXCEPT !.next_file_for_insertion = planned], disk,
                 Some(FinishedSource(TRUE)))
    ELSE deletion_or_insertion(sc, disk,
                               IF are_deletions_enabled(sc.streaming_mode)
                               THEN next_deletion_entry(sc, disk)
                               ELSE Ok(sc, disk, None))

\* next_action_determined after the previous action was finished; planned is
\* what next_file_for_insertion.take() returned
next_action_planned(sc, disk, planned) ==
    IF IsSome(planned)
    THEN IF Exists(disk, Unwrap(planned))
         THEN initiate_file_insertion(sc, disk, Unwrap(planned))
         ELSE Ok(sc, disk, Some(FinishedSource(TRUE)))
    ELSE deletion_or_insertion(sc, disk,
                               IF are_deletions_enabled(sc.streaming_mode)
                               THEN next_deletion_entry(sc, disk)
                               ELSE Ok(sc, disk, None))

next_action_determined(sc, disk) ==
    LET previous == sc.current_action
        sc0 == [sc EXCEPT !.current_action = None]
        was_delete == IsSome(previous) /\ Unwrap(previous).action = "Delete"
        cached_path == IF was_delete THEN cached_file_path(sc, Unwrap(previous).path) ELSE None
    IN
    IF was_delete /\ ~IsSome(cached_path)
    THEN Failed("Panic", sc0, disk, "in case of enabled deletions cache should exist")
    ELSE IF was_delete /\ ~Exists(disk, Unwrap(cached_path))
    THEN Failed("Err", sc0, disk, "Io")          \* std::fs::remove_file(cached_path)?
    ELSE next_action_planned(
            [sc EXCEPT !.current_action = None, !.next_file_for_insertion = None],
            IF was_delete THEN [disk EXCEPT ![Unwrap(cached_path)] = None] ELSE disk,
            sc.next_file_for_insertion)

\* faulty variant: the files known before the seek stay known
seek_to_file_keeps_known(sc, disk, seek_file_path) ==
    IF ~Exists(disk, seek_file_path)
    THEN [sc |-> sc, found |-> FALSE]
    ELSE
    LET target_modify_time == Unwrap(disk[seek_file_path]).mtime
        matching_files == get_matching_file_paths(disk)
        mt(p) == modify_time_value(sc, disk, p)
        sc1 == modify_time_memo(sc, disk, matching_files)
        kept == {p \in matching_files :
                    IsSome(mt(p))
                    /\ TupleLeq(Unwrap(mt(p)), p, target_modify_time, seek_file_path)}
    IN [sc |-> [sc1 EXCEPT
                  !.known_files = [p \in kept \cup DOMAIN sc.known_files |->
                                      IF p \in kept THEN as_secs(Unwrap(mt(p)))
                                      ELSE sc.known_files[p]],
                  !.current_action = Some(ActionRead(seek_file_path))],
        found |-> TRUE]

seek_to_file(sc, disk, seek_file_path) ==
    LET sc0 == [sc EXCEPT !.known_files = EmptyMap] IN
    IF ~Exists(disk, seek_file_path)
    THEN [sc |-> sc0, found |-> FALSE]          \* warn!("Unable to restore state ...")
    ELSE
    LET target_modify_time == Unwrap(disk[seek_file_path]).mtime
        matching_files == get_matching_file_paths(disk)
        mt(p) == modify_time_value(sc0, disk, p)
        sc1 == modify_time_memo(sc0, disk, matching_files)
        kept == {p \in matching_files :
                    IsSome(mt(p))
                    /\ TupleLeq(Unwrap(mt(p)), p, target_modify_time, seek_file_path)}
    IN [sc |-> [sc1 EXCEPT
                  !.known_files = [p \in kept |-> as_secs(Unwrap(mt(p)))],
                  !.current_action = Some(ActionRead(seek_file_path))],
        found |-> TRUE]

---------------------------------------------------------------------------
(* Open files.  A handle is the content the file had when it was opened    *)
(* and the position in it.                                                 *)

File_open(disk, name) == [content |-> Unwrap(disk[name]).content, pos |-> 0]

RECURSIVE LineEnd(_, _)
\* the position after the next "\n" at or after pos, or the end of the content
LineEnd(content, pos) ==
    IF pos >= Len(content) THEN Len(content)
    ELSE IF content[pos + 1] = NL THEN pos + 1
    ELSE LineEnd(content, pos + 1)

Slice(content, from, to) == [i \in 1..(to - from) |-> content[from + i]]

\* faulty variant: ByLine reads to the end of the file as Full does
read_next_bytes_to_end(read_method, handle) ==
    LET from == IF handle.pos > Len(handle.content) THEN Len(handle.content) ELSE handle.pos
        to == Len(handle.content)
    IN [line |-> Slice(handle.content, from, to),
        handle |-> [handle EXCEPT !.pos = IF to > handle.pos THEN to ELSE handle.pos]]

\* ReadMethod::read_next_bytes: the bytes read and the handle after them
read_next_bytes(read_method, handle) ==
    LET from == IF handle.pos > Len(handle.content) THEN Len(handle.content) ELSE handle.pos
        to == IF read_method = "ByLine" THEN LineEnd(handle.content, from)
              ELSE Len(handle.content)
    IN [line |-> Slice(handle.content, from, to),
        handle |-> [handle EXCEPT !.pos = IF to > handle.pos THEN to ELSE handle.pos]]

\* csv::Reader::read_record (has_headers(false)): the next record without its
\* terminator, or None at the end of the content
read_record(handle) ==
    LET from == IF handle.pos > Len(handle.content) THEN Len(handle.content) ELSE handle.pos
        to == LineEnd(handle.content, from)
        body == IF to > from /\ handle.content[to] = NL THEN to - 1 ELSE to
    IN IF from >= Len(handle.content)
       THEN [record |-> None, handle |-> handle]
       ELSE [record |-> Some(Slice(handle.content, from, body)),
             handle |-> [handle EXCEPT !.pos = to]]

---------------------------------------------------------------------------
(* FilesystemReader and CsvFilesystemReader.  rd is the struct: storage    *)
(* (which of the two), read_method, reader, filesystem_scanner,            *)
(* total_entries_read, deferred_read_result.                               *)

FilesystemReader_new(storage, streaming_mode, read_method) ==
    [storage |-> storage,
     read_method |-> read_method,
     reader |-> None,
     filesystem_scanner |-> FilesystemScanner_new(streaming_mode),
     total_entries_read |-> 0,
     deferred_read_result |-> None]

Returned(rd, disk, result) == [rd |-> rd, disk |-> disk, out |-> Some(result)]
\* the call sleeps in wait_for_new_files and loops
Waiting(rd, disk) == [rd |-> rd, disk |-> disk, out |-> None]

\* what read() does with the result next of next_action_determined()?: the
\* selected file is opened
open_next_action(rd, keep_reader_at_end, next) ==
    LET rd1 == [rd EXCEPT !.filesystem_scanner = next.sc] IN
    IF next.tag = "Err" THEN Returned(rd1, next.disk, ReadErr(Unwrap(next.val)))
    ELSE IF next.tag = "Panic" THEN Returned(rd1, next.disk, Panic(Unwrap(next.val)))
    ELSE IF IsSome(next.val)
    THEN LET selected_file == current_file(next.sc) IN
         IF IsSome(selected_file)
         THEN IF Exists(next.disk, Unwrap(selected_file))
              THEN Returned([rd1 EXCEPT !.reader =
                                Some(File_open(next.disk, Unwrap(selected_file)))],
                            next.disk, Unwrap(next.val))
              ELSE Returned(rd1, next.disk, ReadErr("Io"))     \* File::open(..)?
         ELSE Returned(rd1, next.disk, Unwrap(next.val))
    ELSE IF keep_reader_at_end
    THEN \* CsvFilesystemReader: the file came to its end
         Returned([rd1 EXCEPT !.reader = None], next.disk,
                  FinishedSource(~has_planned_insertion(next.sc)))
    ELSE IF is_polling_enabled(next.sc.streaming_mode)
    THEN Waiting(rd1, next.disk)
    ELSE Returned(rd1, next.disk, Finished)

OpenNextAction(rd, disk, keep_reader_at_end) ==
    open_next_action(rd, keep_reader_at_end,
                     next_action_determined(rd.filesystem_scanner, disk))

\* faulty variant: total_entries_read is not advanced
FilesystemReader_read_data_stuck(rd, disk) ==
    LET handle == Unwrap(rd.reader)
        got == read_next_bytes(rd.read_method, handle)
        sc == rd.filesystem_scanner
    IN
    IF Len(got.line) > 0 \/ rd.read_method = "Full"
    THEN LET rd1 == [rd EXCEPT !.reader = Some(got.handle)]
             offset_value == FilePosition(rd1.total_entries_read,
                                          Unwrap(current_offset_file(sc)), got.handle.pos)
             rd2 == IF rd.read_method = "Full"
                    THEN [rd1 EXCEPT
                            !.deferred_read_result =
                                Some(FinishedSource(~has_planned_insertion(sc))),
                            !.reader = None]
                    ELSE rd1
         IN Returned(rd2, disk,
                     Data(Unwrap(data_event_type(sc)), got.line, KeyEmpty, offset_value))
    ELSE Returned([rd EXCEPT !.reader = None], disk,
                  FinishedSource(~has_planned_insertion(sc)))

\* faulty variant: an entry is returned only for bytes read, also with Full
FilesystemReader_read_data_nonempty(rd, disk) ==
    LET handle == Unwrap(rd.reader)
        got == read_next_bytes(rd.read_method, handle)
        sc == rd.filesystem_scanner
    IN
    IF Len(got.line) > 0
    THEN IF ~IsSome(current_offset_file(sc))
         THEN Returned(rd, disk, Panic("unwrap on None"))
         ELSE IF ~IsSome(data_event_type(sc))
         THEN Returned(rd, disk, Panic("scanner action can't be empty"))
         ELSE
         LET rd1 == [rd EXCEPT !.total_entries_read = @ + 1,
                               !.reader = Some(got.handle)]
             offset_value == FilePosition(rd1.total_entries_read,
                                          Unwrap(current_offset_file(sc)), got.handle.pos)
             rd2 == IF rd.read_method = "Full"
                    THEN [rd1 EXCEPT
                            !.deferred_read_result =
                                Some(FinishedSource(~has_planned_insertion(sc))),
                            !.reader = None]
                    ELSE rd1
         IN Returned(rd2, disk,
                     Data(Unwrap(data_event_type(sc)), got.line, KeyEmpty, offset_value))
    ELSE Returned([rd EXCEPT !.reader = None], disk,
                  FinishedSource(~has_planned_insertion(sc)))

\* FilesystemReader::read with self.reader set
FilesystemReader_read_data(rd, disk) ==
    LET handle == Unwrap(rd.reader)
        got == read_next_bytes(rd.read_method, handle)
        sc == rd.filesystem_scanner
    IN
    IF Len(got.line) > 0 \/ rd.read_method = "Full"
    THEN IF ~IsSome(current_offset_file(sc))
         THEN Returned(rd, disk, Panic("unwrap on None"))
         ELSE IF ~IsSome(data_event_type(sc))
         THEN Returned(rd, disk, Panic("scanner action can't be empty"))
         ELSE
         LET rd1 == [rd EXCEPT !.total_entries_read = @ + 1,
                               !.reader = Some(got.handle)]
             offset_value == FilePosition(rd1.total_entries_read,
                                          Unwrap(current_offset_file(sc)), got.handle.pos)
             rd2 == IF rd.read_method = "Full"
                    THEN [rd1 EXCEPT
                            !.deferred_read_result =
                                Some(FinishedSource(~has_planned_insertion(sc))),
                            !.reader = None]
                    ELSE rd1
         IN Returned(rd2, disk,
                     Data(Unwrap(data_event_type(sc)), got.line, KeyEmpty, offset_value))
    ELSE Returned([rd EXCEPT !.reader = None], disk,
                  FinishedSource(~has_planned_insertion(sc)))

FilesystemReader_read(rd, disk) ==
    IF IsSome(rd.deferred_read_result)
    THEN Returned([rd EXCEPT !.deferred_read_result = None], disk,
                  Unwrap(rd.deferred_read_result))
    ELSE IF IsSome(rd.reader)
    THEN FilesystemReader_read_data(rd, disk)
    ELSE OpenNextAction(rd, disk, FALSE)

CsvFilesystemReader_read(rd, disk) ==
    IF IsSome(rd.deferred_read_result)
    THEN Returned([rd EXCEPT !.deferred_read_result = None], disk,
                  Unwrap(rd.deferred_read_result))
    ELSE IF IsSome(rd.reader)
    THEN LET got == read_record(Unwrap(rd.reader))
             sc == rd.filesystem_scanner
         IN IF IsSome(got.record)
            THEN IF ~IsSome(current_offset_file(sc))
                 THEN Returned(rd, disk, Panic("unwrap on None"))
                 ELSE
                 LET rd1 == [rd EXCEPT !.total_entries_read = @ + 1,
                                       !.reader = Some(got.handle)]
                     offset_value == FilePosition(rd1.total_entries_read,
                                                  Unwrap(current_offset_file(sc)),
                                                  got.handle.pos)
                 IN Returned(rd1, disk,
                             Data(Unwrap(data_event_type(sc)), Unwrap(got.record),
                                  KeyEmpty, offset_value))
            ELSE OpenNextAction(rd, disk, TRUE)
    ELSE OpenNextAction(rd, disk, FALSE)

\* seek of either reader: [rd, result], result "Ok" or "Err"
SeekOk(rd) == [rd |-> rd, result |-> "Ok"]
SeekErr(rd) == [rd |-> rd, result |-> "Err"]

FilesystemReader_seek(rd, disk, frontier) ==
    LET offset_value == get_offset(frontier, KeyEmpty) IN
    IF ~IsSome(offset_value) \/ Unwrap(offset_value).variant /= "FilePosition"
    THEN SeekOk(rd)
    ELSE
    LET position == Unwrap(offset_value)
        sought == seek_to_file(rd.filesystem_scanner, disk, position.path)
        rd1 == [rd EXCEPT !.filesystem_scanner = sought.sc]
    IN IF ~Exists(disk, position.path)
       THEN SeekErr(rd1)                          \* File::open(file_path_arc)?
       ELSE SeekOk([rd1 EXCEPT
                      !.reader = Some([File_open(disk, position.path) EXCEPT
                                          !.pos = position.bytes_offset]),
                      !.total_entries_read = position.total_entries_read])

\* faulty variant: the header is deferred whatever the bytes_offset is
CsvFilesystemReader_seek_always_header(rd, disk, frontier) ==
    LET offset_value == get_offset(frontier, KeyEmpty) IN
    IF ~IsSome(offset_value) \/ Unwrap(offset_value).variant /= "FilePosition"
    THEN SeekOk(rd)
    ELSE
    LET position == Unwrap(offset_value)
        sought == seek_to_file(rd.filesystem_scanner, disk, position.path)
        rd1 == [rd EXCEPT !.filesystem_scanner = sought.sc,
                          !.total_entries_read = position.total_entries_read]
    IN IF ~Exists(disk, position.path)
       THEN SeekErr(rd1)                          \* parser_builder.from_path(..)?
       ELSE LET opened == File_open(disk, position.path)
                header == read_record(opened)
                rd2 == IF IsSome(header.record)
                       THEN [rd1 EXCEPT !.deferred_read_result =
                               Some(Data(Unwrap(data_event_type(sought.sc)),
                                         Unwrap(header.record), KeyEmpty, position))]
                       ELSE rd1
            IN SeekOk([rd2 EXCEPT
                         !.reader = Some([opened EXCEPT !.pos = position.bytes_offset])])

CsvFilesystemReader_seek(rd, disk, frontier) ==
    LET offset_value == get_offset(frontier, KeyEmpty) IN
    IF ~IsSome(offset_value) \/ Unwrap(offset_value).variant /= "FilePosition"
    THEN SeekOk(rd)
    ELSE
    LET position == Unwrap(offset_value)
        sought == seek_to_file(rd.filesystem_scanner, disk, position.path)
        rd1 == [rd EXCEPT !.filesystem_scanner = sought.sc,
                          !.total_entries_read = position.total_entries_read]
    IN IF ~Exists(disk, position.path)
       THEN SeekErr(rd1)                          \* parser_builder.from_path(..)?
       ELSE LET opened == File_open(disk, position.path)
                header == read_record(opened)
                rd2 == IF position.bytes_offset > 0 /\ IsSome(header.record)
                       THEN [rd1 EXCEPT !.deferred_read_result =
                               Some(Data(Unwrap(data_event_type(sought.sc)),
                                         Unwrap(header.record), KeyEmpty, position))]
                       ELSE rd1
            IN SeekOk([rd2 EXCEPT
                         !.reader = Some([opened EXCEPT !.pos = position.bytes_offset])])


---------------------------------------------------------------------------
(* KafkaReader.  kr is the struct: topic, positions_for_seek.  The         *)
(* consumer is subscribed to the reader's topic; it holds, per partition,  *)
(* the offset of the message the next poll delivers, and delivers the      *)
(* messages of a partition in offset order.                                *)

Partitions == {0, 1}

KafkaReader_new(topic) ==
    [storage |-> "Kafka", topic |-> topic, positions_for_seek |-> EmptyMap]

Consumer_new(topic, position) == [kind |-> "consumer", topic |-> topic, position |-> position]

\* the message poll() delivers from a partition
kafka_message(consumer, partition) ==
    [topic |-> consumer.topic, partition |-> partition,
     offset |-> consumer.position[partition]]
\* the consumer after that poll
Consumer_polled(consumer, partition) ==
    [consumer EXCEPT !.position[partition] = @ + 1]
\* consumer.seek(topic, partition, Offset(offset)) that succeeded
Consumer_seek(consumer, topic, partition, offset) ==
    IF topic = consumer.topic
    THEN [consumer EXCEPT !.position[partition] = offset]
    ELSE consumer

\* faulty variant: the consumer is sent back to the stored offset itself
KafkaReader_read_seek_same(kr, consumer, message, seek_succeeds) ==
    LET partition == message.partition
        stored == partition \in DOMAIN kr.positions_for_seek
    IN IF stored /\ kr.positions_for_seek[partition] >= message.offset
       THEN LET target == kr.positions_for_seek[partition]
            IN [rd |-> kr,
                consumer |-> IF seek_succeeds
                             THEN Consumer_seek(consumer, message.topic, partition, target)
                             ELSE consumer,
                seek |-> Some([topic |-> message.topic, partition |-> partition,
                               offset |-> target]),
                out |-> None]
       ELSE [rd |-> [kr EXCEPT !.positions_for_seek = MapRemove(@, partition)],
             consumer |-> consumer,
             seek |-> None,
             out |-> Some(Data("", <<message.offset>>, KeyKafka(kr.topic, partition),
                               KafkaOffset(message.offset)))]

\* one round of the loop of KafkaReader::read on a polled message: the reader
\* and the consumer after it, the consumer.seek issued, the result returned
KafkaReader_read(kr, consumer, message, seek_succeeds) ==
    LET partition == message.partition
        stored == partition \in DOMAIN kr.positions_for_seek
    IN IF stored /\ kr.positions_for_seek[partition] >= message.offset
       THEN LET target == kr.positions_for_seek[partition] + 1
            IN [rd |-> kr,
                consumer |-> IF seek_succeeds
                             THEN Consumer_seek(consumer, message.topic, partition, target)
                             ELSE consumer,      \* error!("Failed to seek ...")
                seek |-> Some([topic |-> message.topic, partition |-> partition,
                               offset |-> target]),
                out |-> None]
       ELSE [rd |-> [kr EXCEPT !.positions_for_seek = MapRemove(@, partition)],
             consumer |-> consumer,
             seek |-> None,
             out |-> Some(Data("", <<message.offset>>, KeyKafka(kr.topic, partition),
                               KafkaOffset(message.offset)))]

\* one iteration of the loop of KafkaReader::seek
KafkaSeekEntry(kr, offset_key, offset_value) ==
    IF offset_value.variant /= "KafkaOffset" THEN kr      \* warn!, continue
    ELSE IF offset_key.kind = "Kafka"
    THEN IF kr.topic /= offset_key.topic THEN kr           \* warn!, continue
         ELSE [kr EXCEPT !.positions_for_seek =
                  MapInsert(@, offset_key.partition, offset_value.position)]
    ELSE kr                                                 \* error!

RECURSIVE KafkaSeekLoop(_, _, _)
KafkaSeekLoop(kr, frontier, keys) ==
    IF keys = <<>> THEN kr
    ELSE KafkaSeekLoop(KafkaSeekEntry(kr, keys[1], frontier[keys[1]]), frontier, Tail(keys))

KafkaReader_seek(kr, frontier) == KafkaSeekLoop(kr, frontier, SeqOfSet(DOMAIN frontier))

---------------------------------------------------------------------------
(* ValuesMap: the fields of a row, a sequence of <<name, value>> pairs     *)
(* with distinct names.                                                    *)

FINISH_LITERAL == "*FINISH*"
SPECIAL_FIELD_NAME == "_pw_special"
is_special(values, value) ==
    Len(values) = 1 /\ values[1] = <<SPECIAL_FIELD_NAME, value>>

\* ReaderContext::from_diff: the event kind is kept apart, the payload is the
\* key and the values
from_diff(key, values) == <<key, values>>

---------------------------------------------------------------------------
(* PythonReader.  pr is the struct: total_entries_read, is_initialized,    *)
(* is_finished.  The subject is [deletions_enabled]; what its start, read  *)
(* and end methods do on a call is an input of read(): whether start       *)
(* raises, the response of read (or that it raises), whether end raises.   *)

PythonReader_new ==
    [storage |-> "Python", total_entries_read |-> 0,
     is_initialized |-> FALSE, is_finished |-> FALSE]

\* faulty variant: the position of a value of any variant is restored
PythonReader_seek_any_variant(pr, frontier) ==
    LET offset_value == get_offset(frontier, KeyEmpty) IN
    IF ~IsSome(offset_value)
    THEN pr
    ELSE [pr EXCEPT !.total_entries_read = Unwrap(offset_value).position]

PythonReader_seek(pr, frontier) ==
    LET offset_value == get_offset(frontier, KeyEmpty) IN
    IF ~IsSome(offset_value) \/ Unwrap(offset_value).variant /= "PythonEntrySequentialId"
    THEN pr
    ELSE [pr EXCEPT !.total_entries_read = Unwrap(offset_value).position]

\* key.map(|key| vec![key])
key_vec(key) == IF IsSome(key) THEN Some(<<Unwrap(key)>>) ELSE None

\* the result of read() and the methods of the subject it called
PythonReturned(pr, out, called) == [rd |-> pr, out |-> out, called |-> called]

\* faulty variant: the offset holds the count before the event
PythonReader_read_id_before(pr, subject, start_ok, response, end_ok) ==
    LET starts == IF pr.is_initialized THEN <<>> ELSE <<"start">>
        pr1 == [pr EXCEPT !.is_initialized = TRUE]
    IN IF ~pr.is_initialized /\ ~start_ok
       THEN PythonReturned(pr, ReadErr("Py"), starts)              \* start.call0(py)?
       ELSE IF pr1.is_finished THEN PythonReturned(pr1, Finished, starts)
       ELSE IF response.raises                                 \* read.call0(py)?
       THEN PythonReturned(pr1, ReadErr("Py"), starts \o <<"read">>)
       ELSE IF response.event /= "Insert" /\ ~subject.deletions_enabled
       THEN PythonReturned(pr1, ReadErr("Py"), starts \o <<"read">>)
       ELSE IF is_special(response.values, FINISH_LITERAL)
       THEN PythonReturned([pr1 EXCEPT !.is_finished = TRUE],
                       IF end_ok THEN Finished ELSE ReadErr("Py"),   \* end.call0(py)?
                       starts \o <<"read", "end">>)
       ELSE PythonReturned([pr1 EXCEPT !.total_entries_read = @ + 1],
                       Data(response.event, from_diff(key_vec(response.key), response.values),
                            KeyEmpty, PythonEntrySequentialId(pr1.total_entries_read)),
                       starts \o <<"read">>)

\* faulty variant: the special field ends the stream whatever else the row holds
PythonReader_read_any_special(pr, subject, start_ok, response, end_ok) ==
    LET starts == IF pr.is_initialized THEN <<>> ELSE <<"start">>
        pr1 == [pr EXCEPT !.is_initialized = TRUE]
    IN IF ~pr.is_initialized /\ ~start_ok
       THEN PythonReturned(pr, ReadErr("Py"), starts)              \* start.call0(py)?
       ELSE IF pr1.is_finished THEN PythonReturned(pr1, Finished, starts)
       ELSE IF response.raises                                 \* read.call0(py)?
       THEN PythonReturned(pr1, ReadErr("Py"), starts \o <<"read">>)
       ELSE IF response.event /= "Insert" /\ ~subject.deletions_enabled
       THEN PythonReturned(pr1, ReadErr("Py"), starts \o <<"read">>)
       ELSE IF \E i \in DOMAIN response.values :
                    response.values[i] = <<SPECIAL_FIELD_NAME, FINISH_LITERAL>>
       THEN PythonReturned([pr1 EXCEPT !.is_finished = TRUE],
                       IF end_ok THEN Finished ELSE ReadErr("Py"),   \* end.call0(py)?
                       starts \o <<"read", "end">>)
       ELSE PythonReturned([pr1 EXCEPT !.total_entries_read = @ + 1],
                       Data(response.event, from_diff(key_vec(response.key), response.values),
                            KeyEmpty, PythonEntrySequentialId(pr1.total_entries_read + 1)),
                       starts \o <<"read">>)

\* faulty variant: a rejected event takes a sequential id
PythonReader_read_counts_rejected(pr, subject, start_ok, response, end_ok) ==
    LET starts == IF pr.is_initialized THEN <<>> ELSE <<"start">>
        pr1 == [pr EXCEPT !.is_initialized = TRUE]
    IN IF ~pr.is_initialized /\ ~start_ok
       THEN PythonReturned(pr, ReadErr("Py"), starts)              \* start.call0(py)?
       ELSE IF pr1.is_finished THEN PythonReturned(pr1, Finished, starts)
       ELSE IF response.raises                                 \* read.call0(py)?
       THEN PythonReturned(pr1, ReadErr("Py"), starts \o <<"read">>)
       ELSE IF response.event /= "Insert" /\ ~subject.deletions_enabled
       THEN PythonReturned([pr1 EXCEPT !.total_entries_read = @ + 1], ReadErr("Py"),
                           starts \o <<"read">>)
       ELSE IF is_special(response.values, FINISH_LITERAL)
       THEN PythonReturned([pr1 EXCEPT !.is_finished = TRUE],
                       IF end_ok THEN Finished ELSE ReadErr("Py"),   \* end.call0(py)?
                       starts \o <<"read", "end">>)
       ELSE PythonReturned([pr1 EXCEPT !.total_entries_read = @ + 1],
                       Data(response.event, from_diff(key_vec(response.key), response.values),
                            KeyEmpty, PythonEntrySequentialId(pr1.total_entries_read + 1)),
                       starts \o <<"read">>)

PythonReader_read(pr, subject, start_ok, response, end_ok) ==
    LET starts == IF pr.is_initialized THEN <<>> ELSE <<"start">>
        pr1 == [pr EXCEPT !.is_initialized = TRUE]
    IN IF ~pr.is_initialized /\ ~start_ok
       THEN PythonReturned(pr, ReadErr("Py"), starts)              \* start.call0(py)?
       ELSE IF pr1.is_finished THEN PythonReturned(pr1, Finished, starts)
       ELSE IF response.raises                                 \* read.call0(py)?
       THEN PythonReturned(pr1, ReadErr("Py"), starts \o <<"read">>)
       ELSE IF response.event /= "Insert" /\ ~subject.deletions_enabled
       THEN PythonReturned(pr1, ReadErr("Py"), starts \o <<"read">>)
       ELSE IF is_special(response.values, FINISH_LITERAL)
       THEN PythonReturned([pr1 EXCEPT !.is_finished = TRUE],
                       IF end_ok THEN Finished ELSE ReadErr("Py"),   \* end.call0(py)?
                       starts \o <<"read", "end">>)
       ELSE PythonReturned([pr1 EXCEPT !.total_entries_read = @ + 1],
                       Data(response.event, from_diff(key_vec(response.key), response.values),
                            KeyEmpty, PythonEntrySequentialId(pr1.total_entries_read + 1)),
                       starts \o <<"read">>)

---------------------------------------------------------------------------
(* SqliteReader.  sr is the struct: last_saved_data_version, stored_state  *)
(* (rowid -> values), queued_updates.  The database is [data_version,      *)
(* table], table a map rowid -> values; SELECT returns the rows in rowid   *)
(* order.                                                                  *)

Rowids == {1, 2}
RowValues == {<<<<"c", "u">>>>, <<<<"c", "v">>>>}

RECURSIVE SortedSeq(_)
SortedSeq(S) ==
    IF S = {} THEN <<>>
    ELSE LET x == CHOOSE y \in S : \A z \in S : y <= z
         IN <<x>> \o SortedSeq(S \ {x})

\* the orders in which a HashMap may iterate over the keys S
RECURSIVE IterationOrders(_)
IterationOrders(S) ==
    IF S = {} THEN {<<>>}
    ELSE UNION {{<<x>> \o rest : rest \in IterationOrders(S \ {x})} : x \in S}

SqliteReader_new ==
    [storage |-> "Sqlite", last_saved_data_version |-> None,
     stored_state |-> EmptyMap, queued_updates |-> <<>>]

SqliteDiff(event, rowid, values) ==
    Data(event, from_diff(Some(<<rowid>>), values), EMPTY_OFFSET.key, EMPTY_OFFSET.value)

\* faulty variant: a changed row is enqueued as an Insert only
load_row_insert_only(sr, rowid, values) ==
    IF rowid \in DOMAIN sr.stored_state /\ sr.stored_state[rowid] = values
    THEN sr
    ELSE [sr EXCEPT
            !.queued_updates = Append(@, SqliteDiff("Insert", rowid, values)),
            !.stored_state = MapInsert(@, rowid, values)]

\* the body of the while loop of load_table for one row
load_row(sr, rowid, values) ==
    IF rowid \in DOMAIN sr.stored_state
    THEN IF sr.stored_state[rowid] /= values
         THEN [sr EXCEPT
                 !.queued_updates =
                     @ \o <<SqliteDiff("Delete", rowid, sr.stored_state[rowid]),
                            SqliteDiff("Insert", rowid, values)>>,
                 !.stored_state = MapInsert(@, rowid, values)]
         ELSE sr
    ELSE [sr EXCEPT
            !.queued_updates = Append(@, SqliteDiff("Insert", rowid, values)),
            !.stored_state = MapInsert(@, rowid, values)]

RECURSIVE load_rows(_, _, _)
load_rows(sr, table, rows) ==
    IF rows = <<>> THEN sr
    ELSE load_rows(load_row(sr, rows[1], table[rows[1]]), table, Tail(rows))

\* stored_state.retain(..), visiting the stored rowids in the given order
RECURSIVE retain_rows(_, _, _)
retain_rows(sr, present_rowids, order) ==
    IF order = <<>> THEN sr
    ELSE retain_rows(
            IF order[1] \in present_rowids THEN sr
            ELSE [sr EXCEPT
                    !.queued_updates =
                        Append(@, SqliteDiff("Delete", order[1], sr.stored_state[order[1]])),
                    !.stored_state = MapRemove(@, order[1])],
            present_rowids, Tail(order))

\* faulty variant: FinishedSource is queued also when nothing has changed
load_table_always_closes(sr, table, order, failure) ==
    IF IsSome(failure)
    THEN [tag |-> "Err",
          sr |-> load_rows(sr, table,
                           SubSeq(SortedSeq(DOMAIN table), 1, Unwrap(failure)))]
    ELSE LET loaded == load_rows(sr, table, SortedSeq(DOMAIN table))
             retained == retain_rows(loaded, DOMAIN table, order)
         IN [tag |-> "Ok",
             sr |-> [retained EXCEPT !.queued_updates = Append(@, FinishedSource(TRUE))]]

\* load_table: [tag, sr].  failure is Some(k) when the query fails after k
\* rows (prepare(..)?, query(..)?, rows.next()?, row.get(..)?): the rows
\* before it were compared, retain and the closing FinishedSource are not
\* reached.
load_table(sr, table, order, failure) ==
    IF IsSome(failure)
    THEN [tag |-> "Err",
          sr |-> load_rows(sr, table,
                           SubSeq(SortedSeq(DOMAIN table), 1, Unwrap(failure)))]
    ELSE LET loaded == load_rows(sr, table, SortedSeq(DOMAIN table))
             retained == retain_rows(loaded, DOMAIN table, order)
         IN [tag |-> "Ok",
             sr |-> IF retained.queued_updates /= <<>>
                    THEN [retained EXCEPT !.queued_updates = Append(@, FinishedSource(TRUE))]
                    ELSE retained]

\* read(), or one round of its loop: [rd, out]; out is None when it sleeps
SqliteReader_read(sr, db, order, failure) ==
    IF sr.queued_updates /= <<>>
    THEN [rd |-> [sr EXCEPT !.queued_updates = Tail(@)],
          out |-> Some(Head(sr.queued_updates))]
    ELSE IF sr.last_saved_data_version /= Some(db.data_version)
    THEN LET loaded == load_table(sr, db.table, order, failure)
         IN IF loaded.tag = "Err"
            THEN [rd |-> loaded.sr, out |-> Some(ReadErr("Sqlite"))]    \* self.load_table()?
            ELSE [rd |-> [loaded.sr EXCEPT
                             !.last_saved_data_version = Some(db.data_version)],
                  out |-> Some(NewSource(None))]
    ELSE [rd |-> sr, out |-> None]

\* seek is todo!(..): the thread panics
SqliteReader_seek(sr, frontier) == [rd |-> sr, result |-> "Panic"]

---------------------------------------------------------------------------
(* S3Scanner.  The bucket maps an object key to its last_modified time and *)
(* its content.  sc is the struct: current_object (the path and how the    *)
(* loader thread ends), processed_objects.  The loader thread writes the   *)
(* object into a pipe; the reader end is a handle on what it wrote, which  *)
(* is nothing when GetObject fails.                                        *)

\* bucket.list(objects_prefix): the keys of the objects in the bucket
Bucket_list(bucket) == {key \in Paths : Exists(bucket, key)}
last_modified(bucket, key) == Unwrap(bucket[key]).mtime

S3Scanner_new == [current_object |-> None, processed_objects |-> {}]

\* stream_object_from_path: [sc, pipe_reader]
stream_object_from_path(sc, bucket, object_path) ==
    IF Exists(bucket, object_path)
    THEN [sc |-> [sc EXCEPT !.current_object =
                     Some([path |-> object_path, loader_thread |-> "Ok"])],
          pipe_reader |-> File_open(bucket, object_path)]
    ELSE [sc |-> [sc EXCEPT !.current_object =
                     Some([path |-> object_path, loader_thread |-> "Err"])],
          pipe_reader |-> [content |-> <<>>, pos |-> 0]]

\* the listed objects stream_next_object chooses from
UnprocessedObjects(sc, bucket) == Bucket_list(bucket) \ sc.processed_objects

\* the selection loop of stream_next_object
selected_object(sc, bucket) ==
    LET objects == UnprocessedObjects(sc, bucket)
    IN IF objects = {} THEN None
       ELSE Some(CHOOSE key \in objects : \A other \in objects :
                    TupleLeq(last_modified(bucket, key), key,
                             last_modified(bucket, other), other))

\* one turn of the selection loop of stream_next_object, object being the key
\* of the listed object at hand
selected_object_step(sc, bucket, selected, object) ==
    IF object \in sc.processed_objects THEN selected
    ELSE IF ~IsSome(selected) THEN Some(object)
    ELSE LET selected_object_name == Unwrap(selected)
             earliest_modify_time == last_modified(bucket, selected_object_name)
         IN IF TupleLess(last_modified(bucket, object), object,
                         earliest_modify_time, selected_object_name)
            THEN Some(object)
            ELSE selected

RECURSIVE selected_object_loop(_, _, _, _)
selected_object_loop(sc, bucket, selected, contents) ==
    IF contents = <<>> THEN selected
    ELSE selected_object_loop(sc, bucket,
                              selected_object_step(sc, bucket, selected, Head(contents)),
                              Tail(contents))

\* faulty variant: the selected object is not entered into processed_objects
stream_next_object_forgets(sc, bucket) ==
    IF IsSome(sc.current_object) /\ Unwrap(sc.current_object).loader_thread = "Err"
    THEN [tag |-> "Err", sc |-> [sc EXCEPT !.current_object = None],
          pipe_reader |-> None]
    ELSE IF ~IsSome(selected_object(sc, bucket))
    THEN [tag |-> "Ok", sc |-> [sc EXCEPT !.current_object = None],
          pipe_reader |-> None]
    ELSE LET name == Unwrap(selected_object(sc, bucket))
             streamed == stream_object_from_path(sc, bucket, name)
         IN [tag |-> "Ok", sc |-> streamed.sc, pipe_reader |-> Some(streamed.pipe_reader)]

\* stream_next_object: [tag, sc, pipe_reader]; tag is "Err" when the loader
\* thread of the previous object returned an error
stream_next_object(sc, bucket) ==
    IF IsSome(sc.current_object) /\ Unwrap(sc.current_object).loader_thread = "Err"
    THEN [tag |-> "Err", sc |-> [sc EXCEPT !.current_object = None],
          pipe_reader |-> None]
    ELSE IF ~IsSome(selected_object(sc, bucket))
    THEN [tag |-> "Ok", sc |-> [sc EXCEPT !.current_object = None],
          pipe_reader |-> None]
    ELSE LET name == Unwrap(selected_object(sc, bucket))
             streamed == stream_object_from_path(sc, bucket, name)
         IN [tag |-> "Ok",
             sc |-> [streamed.sc EXCEPT !.processed_objects = @ \cup {name}],
             pipe_reader |-> Some(streamed.pipe_reader)]

\* faulty variant: every key not modified after the sought one is marked
seek_to_object_same_time(sc, bucket, path) ==
    IF path \in Bucket_list(bucket)
    THEN [sc EXCEPT !.processed_objects =
            {key \in Bucket_list(bucket) :
                last_modified(bucket, key) <= last_modified(bucket, path)}
            \cup {path}]
    ELSE [sc EXCEPT !.processed_objects = {}]

seek_to_object(sc, bucket, path) ==
    IF path \in Bucket_list(bucket)
    THEN [sc EXCEPT !.processed_objects =
            {key \in Bucket_list(bucket) :
                TupleLess(last_modified(bucket, key), key,
                          last_modified(bucket, path), path)}
            \cup {path}]
    ELSE [sc EXCEPT !.processed_objects = {}]

\* expect_current_object_path, where a current object is present
expect_current_object_path(sc) == Unwrap(sc.current_object).path

(* The loader threads.  ths lists the threads spawned so far, in order: the *)
(* scanner that spawned it, the object it gets, whether its closure has     *)
(* returned, whether it was joined.  current_object, when present, holds    *)
(* the JoinHandle of the thread spawned last.                               *)

\* thread::Builder::new().spawn in stream_object_from_path_and_bucket
loader_thread(scanner, object_path) ==
    [scanner |-> scanner, path |-> object_path, ended |-> FALSE, joined |-> FALSE]

\* state.loader_thread.join() on the taken current_object: join returns once
\* the thread's closure has returned
join_current_object(ths, sc) ==
    IF IsSome(sc.current_object)
    THEN [ths EXCEPT ![Len(ths)] = [@ EXCEPT !.ended = TRUE, !.joined = TRUE]]
    ELSE ths

\* the threads after stream_next_object, next being what it returns: it joins,
\* and on a selected object stream_object_from_path spawns
threads_after_stream_next_object(ths, scanner, sc, next) ==
    IF IsSome(next.pipe_reader)
    THEN Append(join_current_object(ths, sc),
                loader_thread(scanner, Unwrap(next.sc.current_object).path))
    ELSE join_current_object(ths, sc)

\* the threads after seek on a scanner just constructed, sought being the
\* scanner it leaves: stream_object_from_path spawns and sets current_object
threads_after_seek(ths, scanner, sought) ==
    IF IsSome(sought.current_object)
    THEN Append(ths, loader_thread(scanner, Unwrap(sought.current_object).path))
    ELSE ths

---------------------------------------------------------------------------
(* S3GenericReader and S3CsvReader.                                        *)

S3GenericReader_new(poll_new_objects, read_method) ==
    [storage |-> "S3Lines",
     s3_scanner |-> S3Scanner_new,
     poll_new_objects |-> poll_new_objects,
     read_method |-> read_method,
     reader |-> None,
     total_entries_read |-> 0,
     current_bytes_read |-> 0,
     deferred_read_result |-> None]

S3CsvReader_new(poll_new_objects) ==
    [storage |-> "S3Csv",
     s3_scanner |-> S3Scanner_new,
     poll_new_objects |-> poll_new_objects,
     csv_reader |-> None,
     deferred_read_result |-> None,
     total_entries_read |-> 0]

\* what read() of S3GenericReader does once the current object is exhausted:
\* next is the outcome of s3_scanner.stream_next_object()
S3GenericReader_stream_next_object(rd, bucket, next) ==
    IF next.tag = "Err"
    THEN Returned([rd EXCEPT !.s3_scanner = next.sc], bucket, ReadErr("S3"))
    ELSE IF IsSome(next.pipe_reader)
    THEN Returned([rd EXCEPT !.s3_scanner = next.sc,
                             !.current_bytes_read = 0,
                             !.reader = next.pipe_reader],
                  bucket, NewSource(None))
    ELSE IF rd.poll_new_objects
    THEN Waiting([rd EXCEPT !.s3_scanner = next.sc], bucket)
    ELSE Returned([rd EXCEPT !.s3_scanner = next.sc], bucket, Finished)

\* the Data branch of read() of S3GenericReader: got is what read_next_bytes read
S3GenericReader_read_data(rd, bucket, got) ==
    IF ~IsSome(rd.s3_scanner.current_object)
    THEN Returned(rd, bucket, Panic("current object should be present"))
    ELSE Returned(
            [rd EXCEPT
               !.total_entries_read = @ + 1,
               !.current_bytes_read = @ + Len(got.line),
               !.reader = IF rd.read_method = "Full" THEN None ELSE Some(got.handle),
               !.deferred_read_result =
                   IF rd.read_method = "Full" THEN Some(FinishedSource(TRUE)) ELSE None],
            bucket,
            Data("Insert", got.line, KeyEmpty,
                 S3ObjectPosition(rd.total_entries_read + 1,
                                  expect_current_object_path(rd.s3_scanner),
                                  rd.current_bytes_read + Len(got.line))))

S3GenericReader_read(rd, bucket) ==
    IF IsSome(rd.deferred_read_result)
    THEN Returned([rd EXCEPT !.deferred_read_result = None], bucket,
                  Unwrap(rd.deferred_read_result))
    ELSE IF IsSome(rd.reader)
            /\ (Len(read_next_bytes(rd.read_method, Unwrap(rd.reader)).line) > 0
                \/ rd.read_method = "Full")
    THEN S3GenericReader_read_data(rd, bucket,
                                   read_next_bytes(rd.read_method, Unwrap(rd.reader)))
    ELSE S3GenericReader_stream_next_object(rd, bucket,
                                            stream_next_object(rd.s3_scanner, bucket))

\* the while loop of S3GenericReader::seek: [handle, bytes_read]
RECURSIVE S3GenericSeekLoop(_, _, _, _)
S3GenericSeekLoop(read_method, handle, bytes_read, bytes_offset) ==
    IF bytes_read >= bytes_offset THEN [handle |-> handle, bytes_read |-> bytes_read]
    ELSE LET got == read_next_bytes(read_method, handle)
         IN IF Len(got.line) = 0 THEN [handle |-> got.handle, bytes_read |-> bytes_read]
            ELSE S3GenericSeekLoop(read_method, got.handle,
                                   bytes_read + Len(got.line), bytes_offset)

S3GenericReader_seek(rd, bucket, frontier) ==
    LET offset_value == get_offset(frontier, KeyEmpty) IN
    IF ~IsSome(offset_value) \/ Unwrap(offset_value).variant /= "S3ObjectPosition"
    THEN SeekOk(rd)
    ELSE
    LET position == Unwrap(offset_value)
        streamed == stream_object_from_path(
                        seek_to_object(rd.s3_scanner, bucket, position.path),
                        bucket, position.path)
        sought == S3GenericSeekLoop(rd.read_method, streamed.pipe_reader, 0,
                                    position.bytes_offset)
    IN SeekOk([rd EXCEPT !.s3_scanner = streamed.sc,
                         !.total_entries_read = position.total_entries_read,
                         !.current_bytes_read = sought.bytes_read,
                         !.reader = Some(sought.handle)])

\* what read() of S3CsvReader does once the current object is exhausted
S3CsvReader_stream_next_object(rd, bucket, next) ==
    IF next.tag = "Err"
    THEN Returned([rd EXCEPT !.s3_scanner = next.sc], bucket, ReadErr("S3"))
    ELSE IF IsSome(next.pipe_reader)
    THEN Returned([rd EXCEPT !.s3_scanner = next.sc, !.csv_reader = next.pipe_reader],
                  bucket, NewSource(None))
    ELSE IF rd.poll_new_objects
    THEN Waiting([rd EXCEPT !.s3_scanner = next.sc], bucket)
    ELSE Returned([rd EXCEPT !.s3_scanner = next.sc], bucket, Finished)

\* the Data branch of read() of S3CsvReader: got is what read_record read
S3CsvReader_read_data(rd, bucket, got) ==
    IF ~IsSome(rd.s3_scanner.current_object)
    THEN Returned(rd, bucket, Panic("current object should be present"))
    ELSE Returned(
            [rd EXCEPT !.total_entries_read = @ + 1, !.csv_reader = Some(got.handle)],
            bucket,
            Data("Insert", Unwrap(got.record), KeyEmpty,
                 S3ObjectPosition(rd.total_entries_read + 1,
                                  expect_current_object_path(rd.s3_scanner),
                                  got.handle.pos)))

S3CsvReader_read(rd, bucket) ==
    IF IsSome(rd.deferred_read_result)
    THEN Returned([rd EXCEPT !.deferred_read_result = None], bucket,
                  Unwrap(rd.deferred_read_result))
    ELSE IF IsSome(rd.csv_reader) /\ IsSome(read_record(Unwrap(rd.csv_reader)).record)
    THEN S3CsvReader_read_data(rd, bucket, read_record(Unwrap(rd.csv_reader)))
    ELSE S3CsvReader_stream_next_object(rd, bucket,
                                        stream_next_object(rd.s3_scanner, bucket))

\* the while loop of S3CsvReader::seek: the handle after the skipped records
RECURSIVE S3CsvSeekLoop(_, _)
S3CsvSeekLoop(handle, bytes_offset) ==
    IF handle.pos >= bytes_offset \/ ~IsSome(read_record(handle).record) THEN handle
    ELSE S3CsvSeekLoop(read_record(handle).handle, bytes_offset)

S3CsvReader_seek(rd, bucket, frontier) ==
    LET offset_value == get_offset(frontier, KeyEmpty) IN
    IF ~IsSome(offset_value) \/ Unwrap(offset_value).variant /= "S3ObjectPosition"
    THEN SeekOk(rd)
    ELSE
    LET position == Unwrap(offset_value)
        streamed == stream_object_from_path(
                        seek_to_object(rd.s3_scanner, bucket, position.path),
                        bucket, position.path)
        rd1 == [rd EXCEPT !.s3_scanner = streamed.sc]
        header == read_record(streamed.pipe_reader)
    IN IF position.bytes_offset > 0 /\ ~IsSome(header.record)
       THEN SeekOk(rd1)                     \* error!("Empty S3 object, ..."), Ok(())
       ELSE IF position.bytes_offset > 0
       THEN SeekOk([rd1 EXCEPT
                      !.deferred_read_result =
                          Some(Data("Insert", Unwrap(header.record), KeyEmpty, position)),
                      !.total_entries_read = position.total_entries_read,
                      !.csv_reader =
                          Some(S3CsvSeekLoop(header.handle, position.bytes_offset))])
       ELSE SeekOk([rd1 EXCEPT
                      !.total_entries_read = position.total_entries_read,
                      !.csv_reader = Some(streamed.pipe_reader)])

---------------------------------------------------------------------------
(* The Reader trait on the readers of files and objects: the watched       *)
(* directory, or the bucket, is the map disk.                              *)

Reader_read(rd, disk) ==
    CASE rd.storage = "FileSystem" -> FilesystemReader_read(rd, disk)
      [] rd.storage = "CsvFilesystem" -> CsvFilesystemReader_read(rd, disk)
      [] rd.storage = "S3Lines" -> S3GenericReader_read(rd, disk)
      [] OTHER -> S3CsvReader_read(rd, disk)

Reader_seek(rd, disk, frontier) ==
    CASE rd.storage = "FileSystem" -> FilesystemReader_seek(rd, disk, frontier)
      [] rd.storage = "CsvFilesystem" -> CsvFilesystemReader_seek(rd, disk, frontier)
      [] rd.storage = "S3Lines" -> S3GenericReader_seek(rd, disk, frontier)
      [] OTHER -> S3CsvReader_seek(rd, disk, frontier)

\* the reader constructed again with the configuration of rd
Reader_new(rd) ==
    CASE rd.storage \in {"FileSystem", "CsvFilesystem"} ->
            FilesystemReader_new(rd.storage, rd.filesystem_scanner.streaming_mode,
                                 rd.read_method)
      [] rd.storage = "S3Lines" -> S3GenericReader_new(rd.poll_new_objects, rd.read_method)
      [] OTHER -> S3CsvReader_new(rd.poll_new_objects)

---------------------------------------------------------------------------
VARIABLES
    lhs, rhs, merged,   \* the two frontiers handed to merge_two_frontiers, its result
    disk,               \* the file system: name -> Option<[mtime, content]>
    rd,                 \* the filesystem reader
    phase,              \* "first" run, process "down", "second" run after the restart
    events,             \* the results the reader has returned, in order
    scans,              \* with each result: the scanner's action and plan, the files existing
    run0,               \* the results of the first run
    frontier,           \* Some(frontier handed to seek) once the reader was restarted
    seek_result,        \* what seek returned: "", "Ok" or "Err"
    files_at_seek,      \* the watched files that existed when seek was called
    changes,            \* the changes made to the watched files so far
    source,             \* what a reader that reads no files reads from
    calls,              \* what such a reader did to its source, call by call
    threads             \* the loader threads the object-store scanners have spawned

mergeVars == <<lhs, rhs, merged>>
fsVars == <<disk, rd, phase, events, scans, run0, frontier, seek_result,
           files_at_seek, changes, threads>>
diskVars == <<disk, scans, run0, files_at_seek, threads>>
extVars == <<source, calls>>
vars == <<lhs, rhs, merged, disk, rd, phase, events, scans, run0, frontier,
          seek_result, files_at_seek, changes, source, calls, threads>>

---------------------------------------------------------------------------
(* Frontier merge on bounded frontiers.                                    *)

MergeKeys == {KeyEmpty, KeyKafka("t", 0)}
MergeValues ==
    {FilePosition(n, p, n + 1) : n \in 1..MaxPosition, p \in {"a"}}
    \cup {FilePosition(1, "b", 3)}
    \cup {S3ObjectPosition(n, "a", n) : n \in 1..MaxPosition}
    \cup {KafkaOffset(n) : n \in 1..MaxPosition}
    \cup {PythonEntrySequentialId(n) : n \in 1..MaxPosition}
    \cup {EMPTY_OFFSET.value}
Frontiers == UNION {[D -> MergeValues] : D \in SUBSET MergeKeys}

NoDisk == [n \in Names |-> None]
NoReader == FilesystemReader_new("None", "Static", "ByLine")
NoSource == [kind |-> "none"]

ExtIdle ==
    /\ source = NoSource
    /\ calls = <<>>

DiskIdle ==
    /\ disk = NoDisk
    /\ scans = <<>>
    /\ run0 = <<>>
    /\ files_at_seek = {}
    /\ threads = <<>>

MergeIdle ==
    /\ lhs = EmptyAntichain
    /\ rhs = EmptyAntichain
    /\ merged = None

FsIdle ==
    /\ disk = NoDisk
    /\ rd = NoReader
    /\ phase = ""
    /\ events = <<>>
    /\ scans = <<>>
    /\ run0 = <<>>
    /\ frontier = None
    /\ seek_result = ""
    /\ files_at_seek = {}
    /\ threads = <<>>
    /\ changes = 0

InitMerge ==
    /\ lhs \in Frontiers
    /\ rhs \in Frontiers
    /\ merged = None
    /\ FsIdle
    /\ ExtIdle

Merge ==
    /\ merged = None
    /\ lhs /= EmptyAntichain \/ rhs /= EmptyAntichain
    /\ merged' = Some(merge_two_frontiers(lhs, rhs))
    /\ UNCHANGED <<lhs, rhs>>
    /\ UNCHANGED fsVars
    /\ UNCHANGED extVars

NextMerge == Merge

SpecMerge == InitMerge /\ [][NextMerge]_vars

---------------------------------------------------------------------------
(* The filesystem readers driven by the runtime, other processes changing  *)
(* the watched files, and one restart with a seek.  The cache directory is *)
(* a temporary one (PATHWAY_PERSISTENT_STORAGE unset): it goes with the    *)
(* process.  A reader looks at the watched files only when it scans for    *)
(* the next action and when it seeks, and reads an opened file from its    *)
(* handle; a change made while a file is being read is first seen at the   *)
(* next scan and is taken when that scan is due.                           *)

\* the content a file is created with
ContentOf(p) == IF p = "a" THEN ContentHX ELSE ContentY
FsFiles == [mtime : Times, content : Contents]
InitDisks ==
    {d \in [Names -> {None} \cup {Some(f) : f \in FsFiles}] :
        /\ \A n \in CachePaths : d[n] = None
        /\ \A p \in Paths : IsSome(d[p]) => Unwrap(d[p]).content = ContentOf(p)}

FsConfigs ==
    {FilesystemReader_new("FileSystem", m, r) :
        m \in {"Static", "Streaming"}, r \in {"ByLine", "Full"}}
    \cup {FilesystemReader_new("CsvFilesystem", m, "ByLine") : m \in {"Static", "Streaming"}}

IsFsReader == rd.storage \in {"FileSystem", "CsvFilesystem"}
IsS3Reader == rd.storage \in {"S3Lines", "S3Csv"}
\* the reader reads files or objects
ReadsFiles == IsFsReader \/ IsS3Reader

InitFs ==
    /\ MergeIdle
    /\ ExtIdle
    /\ disk \in InitDisks
    /\ rd \in FsConfigs
    /\ phase = "first"
    /\ events = <<>>
    /\ scans = <<>>
    /\ run0 = <<>>
    /\ frontier = None
    /\ seek_result = ""
    /\ files_at_seek = {}
    /\ threads = <<>>
    /\ changes = 0

LastKind == IF events = <<>> THEN "" ELSE events[Len(events)].kind

\* what a result is returned with: the scanner's action and planned reinsertion,
\* and the metadata and content of the watched files existing then
ScanOf(sc, d) ==
    [action |-> sc.current_action,
     planned |-> sc.next_file_for_insertion,
     existing |-> {p \in Paths : Exists(d, p)},
     metadata |-> [p \in {q \in Paths : Exists(d, q)} |-> from_fs_meta(p, Unwrap(d[p]))],
     content |-> [p \in {q \in Paths : Exists(d, q)} |-> Unwrap(d[p]).content]]
\* an S3Scanner plans nothing
ScanOfReader(r, d) ==
    IF r.storage \in {"FileSystem", "CsvFilesystem"}
    THEN ScanOf(r.filesystem_scanner, d)
    ELSE ScanOf([current_action |-> None, next_file_for_insertion |-> None], d)

\* the next read() looks at the watched files
ScanIsDue ==
    /\ ~IsSome(rd.deferred_read_result)
    /\ CASE rd.storage = "FileSystem" -> ~IsSome(rd.reader)
         [] rd.storage = "CsvFilesystem" ->
                IsSome(rd.reader) => ~IsSome(read_record(Unwrap(rd.reader)).record)
         [] rd.storage = "S3Lines" ->
                IsSome(rd.reader) =>
                    /\ rd.read_method = "ByLine"
                    /\ read_next_bytes("ByLine", Unwrap(rd.reader)).line = <<>>
         [] OTHER ->
                IsSome(rd.csv_reader) => ~IsSome(read_record(Unwrap(rd.csv_reader)).record)

\* one call of read(), or one round of its polling loop
Read ==
    /\ ReadsFiles
    /\ phase \in {"first", "second"}
    /\ Len(events) < MaxReads
    /\ LastKind \notin {"Finished", "Panic"}
    /\ \E step \in {Reader_read(rd, disk)} :
       /\ rd' = step.rd
       /\ disk' = step.disk
       /\ events' = IF IsSome(step.out) THEN Append(events, Unwrap(step.out)) ELSE events
       /\ scans' = IF IsSome(step.out)
                   THEN Append(scans, ScanOfReader(step.rd, step.disk))
                   ELSE scans
    /\ threads' = IF IsS3Reader /\ ScanIsDue
                   THEN threads_after_stream_next_object(
                            threads, phase, rd.s3_scanner,
                            stream_next_object(rd.s3_scanner, disk))
                   ELSE threads
    /\ UNCHANGED <<phase, run0, frontier, seek_result, files_at_seek, changes>>
    /\ UNCHANGED mergeVars
    /\ UNCHANGED extVars

\* the reader has nothing more to return: it finished, it panicked, or its
\* polling loop finds nothing to do
RunIsOver ==
    \/ LastKind \in {"Finished", "Panic"}
    \/ LastKind /= "" /\ ~IsSome(Reader_read(rd, disk).out)

\* the process ends, and its temporary cache directory and its threads with it
\* (no thread is joined on the way).  The frontier
\* persisted by then may be that of any Data event returned so far, so that a
\* process ending earlier leaves nothing behind that Restart does not cover.
Stop ==
    /\ ReadsFiles
    /\ phase = "first"
    /\ RunIsOver
    /\ phase' = "down"
    /\ disk' = [n \in Names |-> IF n \in CachePaths THEN None ELSE disk[n]]
    /\ rd' = Reader_new(rd)
    /\ run0' = events
    /\ events' = <<>>
    /\ scans' = <<>>
    /\ threads' = [i \in 1..Len(threads) |-> [threads[i] EXCEPT !.ended = TRUE]]
    /\ UNCHANGED <<frontier, seek_result, files_at_seek, changes>>
    /\ UNCHANGED mergeVars
    /\ UNCHANGED extVars

\* the frontiers a restart may hand to seek: nothing persisted, the offset of a
\* Data event of the first run, or the frontier of a reader of another kind
SeekFrontiers ==
    {EmptyAntichain, [k \in {KeyEmpty} |-> KafkaOffset(1)]}
    \cup {[k \in {KeyEmpty} |-> Unwrap(run0[i].offset).value] :
            i \in {j \in 1..Len(run0) : run0[j].kind = "Data"}}

\* a reader is constructed anew and seek(frontier) is called on it
Restart ==
    /\ ReadsFiles
    /\ phase = "down"
    /\ IsS3Reader => Bucket_list(disk) /= {}        \* S3Scanner::new: NoObjectsToRead
    /\ \E f \in SeekFrontiers :
         \E sought \in {Reader_seek(rd, disk, f)} :
            /\ frontier' = Some(f)
            /\ rd' = sought.rd
            /\ seek_result' = sought.result
            /\ threads' = IF IsS3Reader
                           THEN threads_after_seek(threads, "second", sought.rd.s3_scanner)
                           ELSE threads
    /\ files_at_seek' = {p \in Paths : Exists(disk, p)}
    /\ phase' = "second"
    /\ UNCHANGED <<disk, events, scans, run0, changes>>
    /\ UNCHANGED mergeVars
    /\ UNCHANGED extVars

\* a change to the watched files is first seen when the reader scans them
ChangeIsSeen == phase = "down" \/ (phase \in {"first", "second"} /\ ScanIsDue)

\* another process creates a watched file, rewrites it or touches it; the clock
\* that stamps the files does not run backwards
WriteFile(limit) ==
    /\ ReadsFiles
    /\ changes < limit
    /\ ChangeIsSeen
    /\ \E p \in Paths, f \in FsFiles :
         /\ disk[p] /= Some(f)
         /\ IF Exists(disk, p)
            THEN f.mtime >= Unwrap(disk[p]).mtime
            ELSE f.content = ContentOf(p)
         /\ disk' = [disk EXCEPT ![p] = Some(f)]
    /\ changes' = changes + 1
    /\ UNCHANGED <<rd, phase, events, scans, run0, frontier, seek_result, files_at_seek,
                   threads>>
    /\ UNCHANGED mergeVars
    /\ UNCHANGED extVars

\* another process removes a watched file
RemoveFile(limit) ==
    /\ ReadsFiles
    /\ changes < limit
    /\ ChangeIsSeen
    /\ \E p \in Paths :
         /\ Exists(disk, p)
         /\ disk' = [disk EXCEPT ![p] = None]
    /\ changes' = changes + 1
    /\ UNCHANGED <<rd, phase, events, scans, run0, frontier, seek_result, files_at_seek,
                   threads>>
    /\ UNCHANGED mergeVars
    /\ UNCHANGED extVars

\* changes while the reader runs
FsWrite == WriteFile(MaxChanges)
FsRemove == RemoveFile(MaxChanges)

\* changes while the process is down and after its restart
FsWriteLate == phase /= "first" /\ WriteFile(MaxLateChanges)
FsRemoveLate == phase /= "first" /\ RemoveFile(MaxLateChanges)

\* one run of a reader over files that other processes change
NextFs == Read \/ FsWrite \/ FsRemove
SpecFs == InitFs /\ [][NextFs]_vars

\* a run, the end of the process, and a second run started with a seek
NextSeek == Read \/ Stop \/ Restart \/ FsWriteLate \/ FsRemoveLate
SpecSeek == InitFs /\ [][NextSeek]_vars

---------------------------------------------------------------------------
(* A filesystem reader in Static mode over files that nothing changes, the *)
(* runtime calling read() again and again.  A file may be empty.           *)

ContentEmpty == <<>>
AnyContents == Contents \cup {ContentEmpty}
AnyDisks ==
    {d \in [Names -> {None} \cup {Some(f) : f \in [mtime : Times, content : AnyContents]}] :
        \A n \in CachePaths : d[n] = None}

InitStatic ==
    /\ MergeIdle
    /\ ExtIdle
    /\ disk \in AnyDisks
    /\ rd \in {c \in FsConfigs : c.filesystem_scanner.streaming_mode = "Static"}
    /\ phase = "first"
    /\ events = <<>>
    /\ scans = <<>>
    /\ run0 = <<>>
    /\ frontier = None
    /\ seek_result = ""
    /\ files_at_seek = {}
    /\ threads = <<>>
    /\ changes = 0

NextStatic == Read
\* the runtime's loop calls read() until it returns Finished
SpecStatic == InitStatic /\ [][NextStatic]_vars /\ WF_vars(Read)

---------------------------------------------------------------------------
(* FilesystemReader with ReadMethod::Full over files that other processes  *)
(* change; a file may be empty when the run starts.                        *)

InitFull ==
    /\ MergeIdle
    /\ ExtIdle
    /\ disk \in AnyDisks
    /\ rd \in {c \in FsConfigs : c.storage = "FileSystem" /\ c.read_method = "Full"}
    /\ phase = "first"
    /\ events = <<>>
    /\ scans = <<>>
    /\ run0 = <<>>
    /\ frontier = None
    /\ seek_result = ""
    /\ files_at_seek = {}
    /\ threads = <<>>
    /\ changes = 0

SpecFull == InitFull /\ [][NextFs]_vars

---------------------------------------------------------------------------
(* The delimited readers, CsvFilesystemReader and S3CsvReader, constructed *)
(* over files nothing changes and sought to a position in one of them: a   *)
(* record boundary of the file or its start, with any count of entries.    *)

DelimitedConfigs ==
    {c \in FsConfigs : c.storage = "CsvFilesystem"} \cup {S3CsvReader_new(poll) : poll \in BOOLEAN}

\* the positions after the records of a content
RecordBoundaries(content) == {i \in 1..Len(content) : content[i] = NL \/ i = Len(content)}

DelimitedPositions(r, d) ==
    {IF r.storage = "CsvFilesystem" THEN FilePosition(n, p, b) ELSE S3ObjectPosition(n, p, b) :
        n \in 0..MaxPosition,
        p \in {q \in Paths : Exists(d, q)},
        b \in 0..Len(ContentHX)}

InitDelimited ==
    /\ MergeIdle
    /\ ExtIdle
    /\ disk \in {d \in InitDisks : Bucket_list(d) /= {}}
    /\ rd \in DelimitedConfigs
    /\ phase = "down"
    /\ events = <<>>
    /\ scans = <<>>
    /\ run0 = <<>>
    /\ frontier = None
    /\ seek_result = ""
    /\ files_at_seek = {}
    /\ threads = <<>>
    /\ changes = 0

\* seek(frontier) on the reader just constructed
SeekDelimited ==
    /\ phase = "down"
    /\ rd \in DelimitedConfigs
    /\ \E position \in DelimitedPositions(rd, disk) :
         /\ position.bytes_offset
               \in {0} \cup RecordBoundaries(Unwrap(disk[position.path]).content)
         /\ \E sought \in {Reader_seek(rd, disk, [k \in {KeyEmpty} |-> position])} :
              /\ frontier' = Some([k \in {KeyEmpty} |-> position])
              /\ rd' = sought.rd
              /\ seek_result' = sought.result
    /\ files_at_seek' = {p \in Paths : Exists(disk, p)}
    /\ phase' = "second"
    /\ UNCHANGED <<disk, events, scans, run0, changes, threads>>
    /\ UNCHANGED mergeVars
    /\ UNCHANGED extVars

NextDelimited == SeekDelimited \/ Read
SpecDelimited == InitDelimited /\ [][NextDelimited]_vars

---------------------------------------------------------------------------
(* KafkaReader on a topic of two partitions: a seek, then polls.  Each     *)
(* partition holds the messages with the offsets 0..MaxOffset.             *)

KafkaSeekValues == {KafkaOffset(n) : n \in 0..MaxPosition}
\* the frontiers handed to seek: positions of the reader's partitions, and
\* entries of another topic, another key or another variant
KafkaFrontiers ==
    UNION {[D -> KafkaSeekValues] : D \in SUBSET {KeyKafka("t", q) : q \in Partitions}}
    \cup {[k \in {KeyKafka("u", 0)} |-> KafkaOffset(1)],
          [k \in {KeyKafka("t", 0)} |-> FilePosition(1, "a", 2)],
          [k \in {KeyEmpty} |-> KafkaOffset(1)],
          [k \in {KeyKafka("u", 0), KeyKafka("t", 0)} |-> KafkaOffset(1)],
          [k \in {KeyKafka("t", 0), KeyKafka("t", 1)} |->
              IF k.partition = 0 THEN FilePosition(1, "a", 2) ELSE KafkaOffset(2)],
          [k \in {KeyEmpty, KeyKafka("t", 1)} |-> KafkaOffset(2)]}

IsKafkaReader == rd.storage = "Kafka"

InitKafka ==
    /\ MergeIdle
    /\ DiskIdle
    /\ rd = KafkaReader_new("t")
    /\ source \in {Consumer_new("t", position) : position \in [Partitions -> 0..MaxOffset]}
    /\ calls = <<>>
    /\ phase = "new"
    /\ events = <<>>
    /\ frontier = None
    /\ seek_result = ""
    /\ changes = 0

\* seek(frontier) on the reader just constructed
KafkaSeek ==
    /\ IsKafkaReader
    /\ phase = "new"
    /\ \E f \in KafkaFrontiers :
         /\ rd' = KafkaReader_seek(rd, f)
         /\ frontier' = Some(f)
    /\ seek_result' = "Ok"
    /\ phase' = "reading"
    /\ UNCHANGED <<events, changes, source, calls>>
    /\ UNCHANGED mergeVars
    /\ UNCHANGED diskVars

\* one round of the loop of read(): a message is polled and skipped or returned
KafkaPoll ==
    /\ IsKafkaReader
    /\ phase = "reading"
    /\ Len(calls) < MaxPolls
    /\ \E partition \in Partitions, seek_succeeds \in BOOLEAN :
         /\ source.position[partition] <= MaxOffset
         /\ \E step \in {KafkaReader_read(rd, Consumer_polled(source, partition),
                                           kafka_message(source, partition),
                                           seek_succeeds)} :
              /\ rd' = step.rd
              /\ source' = step.consumer
              /\ events' = IF IsSome(step.out) THEN Append(events, Unwrap(step.out))
                            ELSE events
              /\ calls' = Append(calls,
                                  [message |-> Some(kafka_message(source, partition)),
                                   stored |-> get_offset(rd.positions_for_seek, partition),
                                   seek |-> step.seek,
                                   out |-> step.out,
                                   left |-> get_offset(step.rd.positions_for_seek, partition)])
    /\ UNCHANGED <<phase, frontier, seek_result, changes>>
    /\ UNCHANGED mergeVars
    /\ UNCHANGED diskVars

\* poll() fails and read() returns the error
KafkaPollError ==
    /\ IsKafkaReader
    /\ phase = "reading"
    /\ Len(calls) < MaxPolls
    /\ events' = Append(events, ReadErr("Kafka"))
    /\ calls' = Append(calls, [message |-> None, stored |-> None, seek |-> None,
                                out |-> None, left |-> None])
    /\ UNCHANGED <<rd, phase, frontier, seek_result, changes, source>>
    /\ UNCHANGED mergeVars
    /\ UNCHANGED diskVars

NextKafka == KafkaSeek \/ KafkaPoll \/ KafkaPollError
SpecKafka == InitKafka /\ [][NextKafka]_vars

---------------------------------------------------------------------------
(* The object-store readers over a bucket that other clients change: the   *)
(* runtime's calls and the restart are those of the filesystem readers,    *)
(* the bucket takes the place of the watched directory.                    *)

S3Configs ==
    {S3GenericReader_new(poll, r) : poll \in BOOLEAN, r \in {"ByLine", "Full"}}
    \cup {S3CsvReader_new(poll) : poll \in BOOLEAN}

\* S3Scanner::new fails with NoObjectsToRead on an empty listing
InitS3 ==
    /\ MergeIdle
    /\ ExtIdle
    /\ disk \in {d \in InitDisks : Bucket_list(d) /= {}}
    /\ rd \in S3Configs
    /\ phase = "first"
    /\ events = <<>>
    /\ scans = <<>>
    /\ run0 = <<>>
    /\ frontier = None
    /\ seek_result = ""
    /\ files_at_seek = {}
    /\ threads = <<>>
    /\ changes = 0

SpecS3 == InitS3 /\ [][NextSeek]_vars

(* The loader threads of the object-store readers.  A thread runs until    *)
(* GetObject has written the object into the pipe, or has failed; the      *)
(* runtime may drop a reader between any two calls.  Nothing in the source *)
(* implements Drop for S3Scanner or CurrentlyProcessedS3Object, and        *)
(* finalize() is not called: dropping the reader drops the JoinHandle,     *)
(* which detaches the thread.                                              *)

\* the closure of a loader thread returns
LoaderEnds ==
    /\ IsS3Reader
    /\ \E i \in 1..Len(threads) :
         /\ ~threads[i].ended
         /\ threads' = [threads EXCEPT ![i].ended = TRUE]
    /\ UNCHANGED <<disk, rd, phase, events, scans, run0, frontier, seek_result,
                   files_at_seek, changes>>
    /\ UNCHANGED mergeVars
    /\ UNCHANGED extVars

\* the reader is dropped while the process goes on
DropReader ==
    /\ IsS3Reader
    /\ phase \in {"first", "second"}
    /\ phase' = "dropped"
    /\ UNCHANGED <<disk, rd, events, scans, run0, frontier, seek_result,
                   files_at_seek, changes, threads>>
    /\ UNCHANGED mergeVars
    /\ UNCHANGED extVars

NextWorkers == Read \/ Stop \/ Restart \/ FsWriteLate \/ FsRemoveLate \/ LoaderEnds \/ DropReader
SpecWorkers == InitS3 /\ [][NextWorkers]_vars

---------------------------------------------------------------------------
(* A filesystem reader over a file that another process rewrites while     *)
(* read() is between the scanner's call and the opening of the file.       *)

\* a call of read() that opens the insertion of a file: the scanner has made
\* its cache copy in next_action_determined, another process rewrites the file,
\* and read() then opens it
ReadWhileRewritten ==
    /\ IsFsReader
    /\ phase \in {"first", "second"}
    /\ Len(events) < MaxReads
    /\ LastKind \notin {"Finished", "Panic"}
    /\ ScanIsDue
    /\ changes < MaxChanges
    /\ \E next \in {next_action_determined(rd.filesystem_scanner, disk)} :
         /\ next.tag = "Ok"
         /\ IsSome(next.val)
         /\ \E p \in Paths, f \in FsFiles :
              /\ next.sc.current_action = Some(ActionRead(p))
              /\ Exists(next.disk, p)
              /\ next.disk[p] /= Some(f)
              /\ f.mtime >= Unwrap(next.disk[p]).mtime
              /\ \E step \in {open_next_action(
                                  rd, rd.storage = "CsvFilesystem",
                                  [next EXCEPT !.disk = [next.disk EXCEPT ![p] = Some(f)]])} :
                   /\ rd' = step.rd
                   /\ disk' = step.disk
                   /\ events' = Append(events, Unwrap(step.out))
                   /\ scans' = Append(scans, ScanOfReader(step.rd, step.disk))
    /\ changes' = changes + 1
    /\ UNCHANGED <<phase, run0, frontier, seek_result, files_at_seek, threads>>
    /\ UNCHANGED mergeVars
    /\ UNCHANGED extVars

NextRace == Read \/ FsWrite \/ FsRemove \/ ReadWhileRewritten
SpecRace == InitFs /\ [][NextRace]_vars

---------------------------------------------------------------------------
(* PythonReader and its subject: a seek, then reads.                       *)

Row == <<<<"c", "u">>>>
FinishRow == <<<<SPECIAL_FIELD_NAME, FINISH_LITERAL>>>>
OtherSpecialRow == <<<<SPECIAL_FIELD_NAME, "*OTHER*">>>>
\* what the subject's read method may return: rows of every kind, the
\* terminator, a row that holds the terminator among other fields, a row whose
\* only field is the special one with another value, an exception
SubjectResponses ==
    {[event |-> e, key |-> Some("k"), values |-> Row, raises |-> FALSE] :
        e \in {"Insert", "Delete", "Upsert"}}
    \cup {[event |-> e, key |-> None, values |-> FinishRow, raises |-> FALSE] :
            e \in {"Insert", "Delete"}}
    \cup {[event |-> "Insert", key |-> None, values |-> FinishRow \o Row, raises |-> FALSE],
          [event |-> "Insert", key |-> None, values |-> OtherSpecialRow, raises |-> FALSE],
          [event |-> "Insert", key |-> None, values |-> <<>>, raises |-> TRUE]}

PythonFrontiers ==
    {EmptyAntichain}
    \cup {[k \in {KeyEmpty} |-> PythonEntrySequentialId(n)] : n \in 0..MaxPosition}
    \cup {[k \in {KeyEmpty} |-> KafkaOffset(1)]}

IsPythonReader == rd.storage = "Python"

InitPython ==
    /\ MergeIdle
    /\ DiskIdle
    /\ rd = PythonReader_new
    /\ source \in {[kind |-> "subject", deletions_enabled |-> b] : b \in BOOLEAN}
    /\ calls = <<>>
    /\ phase = "new"
    /\ events = <<>>
    /\ frontier = None
    /\ seek_result = ""
    /\ changes = 0

PythonSeek ==
    /\ IsPythonReader
    /\ phase = "new"
    /\ \E f \in PythonFrontiers :
         /\ rd' = PythonReader_seek(rd, f)
         /\ frontier' = Some(f)
    /\ seek_result' = "Ok"
    /\ phase' = "reading"
    /\ UNCHANGED <<events, changes, source, calls>>
    /\ UNCHANGED mergeVars
    /\ UNCHANGED diskVars

\* one call of read(), on a reader that was sought or on one that was not
PythonRead ==
    /\ IsPythonReader
    /\ phase \in {"new", "reading"}
    /\ Len(calls) < MaxSubjectCalls
    /\ \E start_ok \in (IF rd.is_initialized THEN {TRUE} ELSE BOOLEAN),
          response \in (IF rd.is_finished THEN {CHOOSE r \in SubjectResponses : r.raises}
                        ELSE SubjectResponses) :
         \E end_ok \in (IF is_special(response.values, FINISH_LITERAL)
                        THEN BOOLEAN ELSE {TRUE}) :
           \E step \in {PythonReader_read(rd, source, start_ok, response, end_ok)} :
              /\ rd' = step.rd
              /\ events' = Append(events, step.out)
              /\ calls' = Append(calls, [response |-> response, called |-> step.called,
                                         out |-> step.out, before |-> rd])
    /\ phase' = "reading"
    /\ UNCHANGED <<frontier, seek_result, changes, source>>
    /\ UNCHANGED mergeVars
    /\ UNCHANGED diskVars

NextPython == PythonSeek \/ PythonRead
SpecPython == InitPython /\ [][NextPython]_vars

---------------------------------------------------------------------------
(* SqliteReader and its database, which other connections change.          *)

SqliteTables == UNION {[D -> RowValues] : D \in SUBSET Rowids}

IsSqliteReader == rd.storage = "Sqlite"

InitSqlite ==
    /\ MergeIdle
    /\ DiskIdle
    /\ rd = SqliteReader_new
    /\ source \in {[kind |-> "sqlite", data_version |-> 1, table |-> t] : t \in SqliteTables}
    /\ calls = <<>>
    /\ phase = "new"
    /\ events = <<>>
    /\ frontier = None
    /\ seek_result = ""
    /\ changes = 0

\* how many reloads fail
MaxFailures == 1

\* the reloads that failed so far
FailedReloads == Cardinality({n \in 1..Len(events) : events[n].kind = "Err"})

\* one call of read(), or one round of its loop
SqliteRead ==
    /\ IsSqliteReader
    /\ phase \in {"new", "reading"}
    /\ Len(events) < MaxReads
    /\ \E order \in IterationOrders(DOMAIN rd.stored_state \cup DOMAIN source.table) :
         \E failure \in {None} \cup {Some(k) : k \in 0..Cardinality(DOMAIN source.table)} :
         \E step \in {SqliteReader_read(rd, source, order, failure)} :
            /\ IsSome(failure) => FailedReloads < MaxFailures
            /\ rd' = step.rd
            /\ events' = IF IsSome(step.out) THEN Append(events, Unwrap(step.out))
                          ELSE events
            /\ calls' = IF rd.queued_updates = <<>> /\ IsSome(step.out)
                           /\ Unwrap(step.out).kind = "NewSource"
                        THEN Append(calls, [table |-> source.table,
                                            stored_state |-> step.rd.stored_state,
                                            before |-> rd.stored_state,
                                            queued_updates |-> step.rd.queued_updates])
                        ELSE calls
    /\ phase' = "reading"
    /\ UNCHANGED <<frontier, seek_result, changes, source>>
    /\ UNCHANGED mergeVars
    /\ UNCHANGED diskVars

\* another connection commits a transaction: the data version moves on
SqliteWrite ==
    /\ IsSqliteReader
    /\ changes < MaxChanges
    /\ rd.queued_updates = <<>>
    /\ \E t \in SqliteTables :
         source' = [source EXCEPT !.table = t, !.data_version = @ + 1]
    /\ changes' = changes + 1
    /\ UNCHANGED <<rd, phase, events, frontier, seek_result, calls>>
    /\ UNCHANGED mergeVars
    /\ UNCHANGED diskVars

\* seek on the reader just constructed
SqliteSeek ==
    /\ IsSqliteReader
    /\ phase = "new"
    /\ \E f \in {EmptyAntichain} :
         \E sought \in {SqliteReader_seek(rd, f)} :
            /\ rd' = sought.rd
            /\ seek_result' = sought.result
            /\ frontier' = Some(f)
    /\ events' = Append(events, Panic("seek is not supported for Sqlite source"))
    /\ phase' = "over"
    /\ UNCHANGED <<changes, source, calls>>
    /\ UNCHANGED mergeVars
    /\ UNCHANGED diskVars

NextSqlite == SqliteRead \/ SqliteWrite \/ SqliteSeek
SpecSqlite == InitSqlite /\ [][NextSqlite]_vars

---------------------------------------------------------------------------
(* Every reader, each with its source.                                     *)

InitReaders == InitFs \/ InitS3 \/ InitKafka \/ InitPython \/ InitSqlite
NextReaders == NextSeek \/ NextKafka \/ NextPython \/ NextSqlite
SpecReaders == InitReaders /\ [][NextReaders]_vars

---------------------------------------------------------------------------
(* PsqlWriter.  A FormatterContext is its payloads (the queries) and its   *)
(* values (the parameters).  The database is the list of the transactions  *)
(* the client has opened: the queries executed in each and whether it was  *)
(* committed; a transaction dropped without commit is rolled back.  An     *)
(* outcome says what the server does with one flush: whether the           *)
(* transaction opens, which execute fails (0: none), whether commit works. *)

MaxBatchSize == 2
MaxWrites == 4

\* a payload that is not UTF-8
NotUtf8 == "\\xff"
FormatterContexts ==
    {[payloads |-> <<"q1">>, values |-> <<1>>],
     [payloads |-> <<"q2", "q3">>, values |-> <<2>>],
     [payloads |-> <<NotUtf8>>, values |-> <<3>>]}

FlushOutcomes ==
    [transaction_ok : BOOLEAN, failing_execute : 0..MaxBatchSize, commit_ok : BOOLEAN]

PsqlWriter_new(max_batch_size) ==
    [storage |-> "Psql", max_batch_size |-> max_batch_size, buffer |-> <<>>]

\* the payloads of the buffered records, in the order of the two loops of flush
RECURSIVE Queries(_)
Queries(buffer) ==
    IF buffer = <<>> THEN <<>> ELSE Head(buffer).payloads \o Queries(Tail(buffer))

\* the loops of flush: [executed, failed]; from_utf8(payload)? or
\* transaction.execute(..)? leaves them at the first query that fails
RECURSIVE ExecuteLoop(_, _, _, _)
ExecuteLoop(queries, i, executed, failing_execute) ==
    IF i > Len(queries) THEN [executed |-> executed, failed |-> FALSE]
    ELSE IF queries[i] = NotUtf8 \/ Len(executed) + 1 = failing_execute
    THEN [executed |-> executed, failed |-> TRUE]
    ELSE ExecuteLoop(queries, i + 1, Append(executed, queries[i]), failing_execute)

\* flush: [w, db, result]
PsqlWriter_flush(w, db, outcome) ==
    IF w.buffer = <<>>
    THEN [w |-> w, db |-> db, result |-> "Ok"]
    ELSE IF ~outcome.transaction_ok                     \* self.client.transaction()?
    THEN [w |-> w, db |-> db, result |-> "Err"]
    ELSE LET loop == ExecuteLoop(Queries(w.buffer), 1, <<>>, outcome.failing_execute)
             committed == ~loop.failed /\ outcome.commit_ok
         IN \* buffer.drain(..) empties the buffer, also when the loop is left early
            [w |-> [w EXCEPT !.buffer = <<>>],
             db |-> Append(db, [executed |-> loop.executed, committed |-> committed]),
             result |-> IF committed THEN "Ok" ELSE "Err"]

\* write: [w, db, result]
PsqlWriter_write(w, db, data, outcome) ==
    LET pushed == [w EXCEPT !.buffer = Append(@, data)] IN
    IF IsSome(w.max_batch_size) /\ Len(pushed.buffer) = Unwrap(w.max_batch_size)
    THEN PsqlWriter_flush(pushed, db, outcome)
    ELSE [w |-> pushed, db |-> db, result |-> "Ok"]

IsPsqlWriter == rd.storage = "Psql"

InitPsql ==
    /\ MergeIdle
    /\ DiskIdle
    /\ rd \in {PsqlWriter_new(None)} \cup {PsqlWriter_new(Some(n)) : n \in 1..MaxBatchSize}
    /\ source = [kind |-> "psql", transactions |-> <<>>]
    /\ calls = <<>>
    /\ phase = "writing"
    /\ events = <<>>
    /\ frontier = None
    /\ seek_result = ""
    /\ changes = 0

\* a call of a method of the writer is recorded with the buffer before and
\* after it and the transactions opened before it
PsqlCall(method, data, step) ==
    /\ rd' = step.w
    /\ source' = [source EXCEPT !.transactions = step.db]
    /\ calls' = Append(calls, [method |-> method, data |-> data, result |-> step.result,
                               before |-> rd.buffer, after |-> step.w.buffer,
                               transactions |-> Len(source.transactions)])
    /\ UNCHANGED <<phase, events, frontier, seek_result, changes>>
    /\ UNCHANGED mergeVars
    /\ UNCHANGED diskVars

PsqlWrite ==
    /\ IsPsqlWriter
    /\ Len(calls) < MaxWrites
    /\ \E data \in FormatterContexts, outcome \in FlushOutcomes :
         PsqlCall("write", data, PsqlWriter_write(rd, source.transactions, data, outcome))

PsqlFlush ==
    /\ IsPsqlWriter
    /\ Len(calls) < MaxWrites
    /\ \E forced \in BOOLEAN, outcome \in FlushOutcomes :
         PsqlCall("flush", forced, PsqlWriter_flush(rd, source.transactions, outcome))

NextPsql == PsqlWrite \/ PsqlFlush
SpecPsql == InitPsql /\ [][NextPsql]_vars

---------------------------------------------------------------------------
(* DeltaTableWriter on a schema of one Int64 value field and the two       *)
(* SPECIAL_OUTPUT_FIELDS.  The table is the batches handed to the record   *)
(* batch writer and the batches committed; the clock is that of Instant.   *)
(* An outcome says whether writer.write and flush_and_commit succeed.      *)

\* the values of a row: one that fits the Int64 column and one that does not
IntValues == {"1"}
DeltaValues == IntValues \cup {"x"}
DeltaContexts == [values : {<<v>> : v \in DeltaValues}, time : {"0"}, diff : {"1"}]
CommitFrequencies == {2}
DeltaOutcomes == [write_ok : BOOLEAN, commit_ok : BOOLEAN]

DeltaTableWriter_new(min_commit_frequency, now) ==
    [storage |-> "DeltaTable",
     buffered_columns |-> <<<<>>, <<>>, <<>>>>,
     min_commit_frequency |-> min_commit_frequency,
     last_commit_at |-> now]

\* write: the values go to the first columns, time and diff to the last two
DeltaTableWriter_write(w, data) ==
    LET columns == Len(w.buffered_columns) IN
    [w EXCEPT !.buffered_columns =
        [index \in 1..columns |->
            IF index <= Len(data.values)
            THEN Append(w.buffered_columns[index], data.values[index])
            ELSE IF index = columns - 1
            THEN Append(w.buffered_columns[index], data.time)
            ELSE Append(w.buffered_columns[index], data.diff)]]

\* prepare_delta_batch succeeds when every value of the value column is an Int
prepare_delta_batch(w) ==
    IF \A i \in 1..Len(w.buffered_columns[1]) : w.buffered_columns[1][i] \in IntValues
    THEN Some(w.buffered_columns)
    ELSE None

elapsed(w, now) == now - w.last_commit_at

\* a faulty variant: forced is not looked at
commit_needed_unforced(w, forced, now) ==
    /\ w.buffered_columns[1] /= <<>>
    /\ \/ ~IsSome(w.min_commit_frequency)
       \/ elapsed(w, now) >= Unwrap(w.min_commit_frequency)

commit_needed(w, forced, now) ==
    /\ w.buffered_columns[1] /= <<>>
    /\ \/ ~IsSome(w.min_commit_frequency)
       \/ elapsed(w, now) >= Unwrap(w.min_commit_frequency)
       \/ forced

\* flush: [w, table, result]
DeltaTableWriter_flush(w, table, forced, now, outcome) ==
    IF ~commit_needed(w, forced, now)
    THEN [w |-> w, table |-> table, result |-> "Ok"]
    ELSE IF ~IsSome(prepare_delta_batch(w)) \/ ~outcome.write_ok
    THEN [w |-> w, table |-> table, result |-> "Err"]
    ELSE LET written == Append(table.written, Unwrap(prepare_delta_batch(w))) IN
         IF ~outcome.commit_ok
         THEN [w |-> w, table |-> [table EXCEPT !.written = written], result |-> "Err"]
         ELSE [w |-> [w EXCEPT !.buffered_columns = [i \in DOMAIN @ |-> <<>>]],
               table |-> [table EXCEPT !.written = <<>>,
                                       !.committed = @ \o written],
               result |-> "Ok"]

IsDeltaTableWriter == rd.storage = "DeltaTable"

InitDelta ==
    /\ MergeIdle
    /\ DiskIdle
    /\ rd \in {DeltaTableWriter_new(None, 0)}
              \cup {DeltaTableWriter_new(Some(f), 0) : f \in CommitFrequencies}
    /\ source = [kind |-> "delta", now |-> 0, written |-> <<>>, committed |-> <<>>]
    /\ calls = <<>>
    /\ phase = "writing"
    /\ events = <<>>
    /\ frontier = None
    /\ seek_result = ""
    /\ changes = 0

\* a call is recorded with the columns before and after it, the time of the
\* call and the number of batches committed before it
DeltaCall(method, forced, w, table, result) ==
    /\ rd' = w
    /\ source' = [source EXCEPT !.written = table.written, !.committed = table.committed]
    /\ calls' = Append(calls, [method |-> method, forced |-> forced, result |-> result,
                               before |-> rd.buffered_columns,
                               after |-> w.buffered_columns,
                               now |-> source.now,
                               committed |-> Len(source.committed)])
    /\ UNCHANGED <<phase, events, frontier, seek_result, changes>>
    /\ UNCHANGED mergeVars
    /\ UNCHANGED diskVars

DeltaWrite ==
    /\ IsDeltaTableWriter
    /\ Len(calls) < MaxWrites
    /\ \E data \in DeltaContexts :
         DeltaCall("write", FALSE, DeltaTableWriter_write(rd, data), source, "Ok")

DeltaFlush ==
    /\ IsDeltaTableWriter
    /\ Len(calls) < MaxWrites
    /\ \E forced \in BOOLEAN, outcome \in DeltaOutcomes :
         \E step \in {DeltaTableWriter_flush(rd, source, forced, source.now, outcome)} :
            DeltaCall("flush", forced, step.w, step.table, step.result)

\* time passes
DeltaTick ==
    /\ IsDeltaTableWriter
    /\ source.now < MaxTime
    /\ source' = [source EXCEPT !.now = @ + 1]
    /\ UNCHANGED <<rd, phase, events, frontier, seek_result, changes, calls>>
    /\ UNCHANGED mergeVars
    /\ UNCHANGED diskVars

NextDelta == DeltaWrite \/ DeltaFlush \/ DeltaTick
SpecDelta == InitDelta /\ [][NextDelta]_vars

---------------------------------------------------------------------------
(* Properties of the frontier merge, checked under SpecMerge.              *)

CommonKeys == DOMAIN lhs \cap DOMAIN rhs
SameVariant(k) == lhs[k].variant = rhs[k].variant

\* the entry of key k in the result m is merged as the maximum
MergedNormally(m, k) ==
    /\ k \notin DOMAIN rhs => m[k] = lhs[k]
    /\ k \notin DOMAIN lhs => m[k] = rhs[k]
    /\ (k \in CommonKeys /\ SameVariant(k)) =>
          /\ m[k] \in {lhs[k], rhs[k]}
          /\ OrderOf(m[k]) >= OrderOf(lhs[k])
          /\ OrderOf(m[k]) >= OrderOf(rhs[k])

\* C3: the merged frontier has exactly the keys of lhs and rhs; a key held by
\* one side only keeps that side's value; a key held by both sides with values
\* of the same variant gets one of the two values, and one that is greatest in
\* the variant's order (total_entries_read, or the integer position).
MergeTakesMaximum ==
    IsSome(merged) =>
        /\ DOMAIN Unwrap(merged) = DOMAIN lhs \cup DOMAIN rhs
        /\ \A k \in DOMAIN Unwrap(merged) : MergedNormally(Unwrap(merged), k)

\* a merge in which rhs holds the greater value of a common key and a key of its own
MergeTakesMaximumWitness ==
    /\ IsSome(merged)
    /\ \E k \in CommonKeys :
         /\ SameVariant(k)
         /\ OrderOf(rhs[k]) > OrderOf(lhs[k])
         /\ Unwrap(merged)[k] = rhs[k]
    /\ \E k \in DOMAIN rhs \ DOMAIN lhs : Unwrap(merged)[k] = rhs[k]

\* every common key holds values of one variant that are equal or are ordered
ComparableFrontiers ==
    \A k \in CommonKeys :
        /\ SameVariant(k)
        /\ lhs[k] = rhs[k] \/ OrderOf(lhs[k]) /= OrderOf(rhs[k])

\* C4 as stated: merging lhs with rhs gives the same frontier as merging rhs
\* with lhs, for all frontiers.
MergeCommutes ==
    IsSome(merged) => Unwrap(merged) = merge_two_frontiers(rhs, lhs)

\* C4, amended: merging lhs with rhs gives the same frontier as merging rhs with
\* lhs when every key present in both holds values of the same variant that are
\* equal or differ in their ordering component.
MergeCommutesOnComparable ==
    (IsSome(merged) /\ ComparableFrontiers) =>
        Unwrap(merged) = merge_two_frontiers(rhs, lhs)

\* a merge of comparable frontiers that differ on a common key
MergeCommutesWitness ==
    /\ IsSome(merged)
    /\ ComparableFrontiers
    /\ \E k \in CommonKeys : OrderOf(lhs[k]) > OrderOf(rhs[k])
    /\ DOMAIN lhs /= DOMAIN rhs

\* C5: when lhs and rhs hold values of different variants for a key, the merge
\* returns a frontier (it does not fail) in which that key keeps the lhs value,
\* and every other key is merged as the maximum.
MergeKeepsLhsOnMismatch ==
    (IsSome(merged) /\ \E k \in CommonKeys : ~SameVariant(k)) =>
        /\ DOMAIN Unwrap(merged) = DOMAIN lhs \cup DOMAIN rhs
        /\ \A k \in DOMAIN Unwrap(merged) :
             IF k \in CommonKeys /\ ~SameVariant(k)
             THEN Unwrap(merged)[k] = lhs[k]
             ELSE MergedNormally(Unwrap(merged), k)

\* a merge with a variant mismatch on one key and a greater rhs value on another
MergeKeepsLhsWitness ==
    /\ IsSome(merged)
    /\ \E k \in CommonKeys :
         /\ ~SameVariant(k)
         /\ Unwrap(merged)[k] = lhs[k]
         /\ \E j \in CommonKeys \ {k} :
              /\ SameVariant(j)
              /\ OrderOf(rhs[j]) > OrderOf(lhs[j])
              /\ Unwrap(merged)[j] = rhs[j]

---------------------------------------------------------------------------
(* Properties of the results of the filesystem readers.                    *)

IsStreaming == rd.filesystem_scanner.streaming_mode = "Streaming"
IsResult(e) == e.kind \in {"NewSource", "Data", "FinishedSource", "Finished"}
\* the results read() returned with Ok, in order
Results == SelectSeq(events, IsResult)

\* C6: the results of FilesystemReader and CsvFilesystemReader follow NewSource,
\* Data*, FinishedSource, NewSource, ...: a Data comes after a NewSource or a
\* Data, a NewSource comes first or after a FinishedSource, and a FinishedSource
\* comes after a NewSource or a Data, also in a run started with a seek.
SourceFraming ==
    \A i \in 1..Len(Results) :
        LET before == IF i = 1 THEN "" ELSE Results[i - 1].kind IN
        /\ Results[i].kind = "Data" => before \in {"NewSource", "Data"}
        /\ Results[i].kind = "NewSource" => before \in {"", "FinishedSource"}
        /\ Results[i].kind = "FinishedSource" => before \in {"NewSource", "Data"}

\* event i opens the deletion of p while p exists: p was modified
OpensDeletionOfModified(i, p) ==
    /\ events[i].kind = "NewSource"
    /\ scans[i].action = Some(ActionDelete(p))
    /\ p \in scans[i].existing

IsDataOf(e, event, p) ==
    e.kind = "Data" /\ e.event = event /\ Unwrap(e.offset).value.path = p

\* the NewSource events before i that opened an insertion of p
InsertionsBefore(i, p) ==
    {j \in 1..(i - 1) : events[j].kind = "NewSource" /\ scans[j].action = Some(ActionRead(p))}

RECURSIVE ModificationFollows(_, _, _)
\* the events from j on continue the modification of p that is in the given
\* stage, as far as they were returned and while p exists
ModificationFollows(p, j, stage) ==
    IF j > Len(events) THEN TRUE
    ELSE IF stage = "delete"
    THEN IF IsDataOf(events[j], "Delete", p)
         THEN ModificationFollows(p, j + 1, "delete")
         ELSE events[j] = FinishedSource(FALSE) /\ ModificationFollows(p, j + 1, "between")
    ELSE IF stage = "between"
    THEN p \in scans[j].existing =>
            /\ events[j] = NewSource(Some(scans[j].metadata[p]))
            /\ scans[j].action = Some(ActionRead(p))
            /\ ModificationFollows(p, j + 1, "insert")
    ELSE IF IsDataOf(events[j], "Insert", p)
         THEN ModificationFollows(p, j + 1, "insert")
         ELSE events[j] = FinishedSource(TRUE)

\* C7: in Streaming mode a known file p whose mtime changed and which exists
\* is surfaced as NewSource(the metadata p was inserted with), Delete Data of p,
\* FinishedSource{commit_allowed: false}, NewSource(the new metadata), Insert
\* Data of p, FinishedSource{commit_allowed: true}, nothing else in between.
ModificationSemantics ==
    \A i \in 1..Len(events) : \A p \in Paths :
        (IsStreaming /\ OpensDeletionOfModified(i, p)) =>
            /\ \E j \in InsertionsBefore(i, p) :
                 /\ \A k \in InsertionsBefore(i, p) : k <= j
                 /\ events[i].metadata = events[j].metadata
            /\ ModificationFollows(p, i + 1, "delete")

\* event j is the first NewSource after i
NextSourceAfter(i, j) ==
    /\ j > i
    /\ events[j].kind = "NewSource"
    /\ \A k \in (i + 1)..(j - 1) : events[k].kind /= "NewSource"

\* C8: between the NewSource opening the deletion half of a modified file p
\* and the NewSource opening its reinsertion there is a FinishedSource with
\* commit_allowed false and no FinishedSource with commit_allowed true.
NoCommitInsideModification ==
    \A i \in 1..Len(events) : \A p \in Paths : \A j \in 1..Len(events) :
        (/\ OpensDeletionOfModified(i, p)
         /\ NextSourceAfter(i, j)
         /\ scans[j].action = Some(ActionRead(p))) =>
            /\ \E k \in (i + 1)..(j - 1) : events[k] = FinishedSource(FALSE)
            /\ \A k \in (i + 1)..(j - 1) : events[k] /= FinishedSource(TRUE)

---------------------------------------------------------------------------
(* Properties of a run started with a seek, checked under SpecSeek.        *)

IsData(e) == e.kind = "Data"
RECURSIVE DataAfter(_, _)
\* the Data events of a run whose offsets are greater than the offset value
DataAfter(run, offset_value) ==
    IF run = <<>> THEN <<>>
    ELSE IF IsData(run[1]) /\ OrderOf(Unwrap(run[1].offset).value) > OrderOf(offset_value)
    THEN <<run[1]>> \o DataAfter(Tail(run), offset_value)
    ELSE DataAfter(Tail(run), offset_value)

\* the reader was restarted with a frontier holding a position in a file
SoughtPosition ==
    /\ IsSome(frontier)
    /\ KeyEmpty \in DOMAIN Unwrap(frontier)
    /\ Unwrap(frontier)[KeyEmpty].variant \in {"FilePosition", "S3ObjectPosition"}
FrontierValue == Unwrap(frontier)[KeyEmpty]

\* both runs came to Finished and no file was changed
BothRunsFinished ==
    /\ phase = "second"
    /\ LastKind = "Finished"
    /\ run0 /= <<>>
    /\ run0[Len(run0)].kind = "Finished"
    /\ changes = 0

\* C1: a filesystem reader (ByLine, Full or delimited) constructed anew, sought
\* to a frontier F taken from the offsets of a run R0 over unchanged files and
\* read until Finished returns exactly the Data events of R0 whose offsets are
\* greater than F.
SeekIdempotence ==
    (BothRunsFinished /\ SoughtPosition) =>
        SelectSeq(events, IsData) = DataAfter(run0, FrontierValue)

\* C10: when the file named by the frontier's FilePosition does not exist,
\* seek returns Ok and leaves the reader as it was constructed, so that the
\* reads that follow surface every matching file from the start.
SeekToVanishedFile ==
    (/\ phase = "second"
     /\ SoughtPosition
     /\ FrontierValue.path \notin files_at_seek) =>
        /\ seek_result = "Ok"
        /\ events = <<>> =>
              rd = FilesystemReader_new(rd.storage, rd.filesystem_scanner.streaming_mode,
                                        rd.read_method)

---------------------------------------------------------------------------
(* Properties of the message-bus reader, checked under SpecKafka.          *)

\* the polls that delivered a message
Polled == {i \in 1..Len(calls) : IsSome(calls[i].message)}
PolledMessage(i) == Unwrap(calls[i].message)
IsFirstPollOf(i) ==
    \A j \in Polled : j < i => PolledMessage(j).partition /= PolledMessage(i).partition

\* the position seek(F) stores for a partition
SoughtOffset(partition) ==
    IF /\ IsSome(frontier)
       /\ KeyKafka(rd.topic, partition) \in DOMAIN Unwrap(frontier)
       /\ Unwrap(frontier)[KeyKafka(rd.topic, partition)].variant = "KafkaOffset"
    THEN Some(Unwrap(frontier)[KeyKafka(rd.topic, partition)].position)
    ELSE None

\* the poll returned the message as Data, tagged with its partition and offset
ReturnedAsData(i) ==
    calls[i].out = Some(Data("", <<PolledMessage(i).offset>>,
                             KeyKafka(rd.topic, PolledMessage(i).partition),
                             KafkaOffset(PolledMessage(i).offset)))

\* C9: after seek(F) the entry of partition p is the position s of F; while it
\* is stored, a polled message of p with offset <= s makes the reader issue
\* consumer.seek(topic, p, s + 1), return nothing and keep the entry; the
\* first message with offset > s is returned as Data with the offset
\* (Kafka(topic, p), KafkaOffset(offset)) and the entry is removed; a message
\* of a partition without an entry is returned as Data.
KafkaLazySeek ==
    \A i \in Polled :
        LET m == PolledMessage(i)
            stored == calls[i].stored
        IN /\ IsFirstPollOf(i) => stored = SoughtOffset(m.partition)
           /\ (IsSome(stored) /\ m.offset <= Unwrap(stored)) =>
                 /\ calls[i].seek = Some([topic |-> rd.topic, partition |-> m.partition,
                                          offset |-> Unwrap(stored) + 1])
                 /\ calls[i].out = None
                 /\ calls[i].left = stored
           /\ (IsSome(stored) /\ m.offset > Unwrap(stored)) =>
                 /\ ReturnedAsData(i)
                 /\ calls[i].seek = None
                 /\ calls[i].left = None
           /\ ~IsSome(stored) =>
                 /\ ReturnedAsData(i)
                 /\ calls[i].seek = None

\* a message at or before the stored position was skipped with a seek, a later
\* message of the partition was returned and the entry removed, and a message
\* of a partition that then had no entry was returned
KafkaLazySeekWitness ==
    \E i, j, k \in Polled :
        /\ i < j /\ j < k
        /\ PolledMessage(i).partition = PolledMessage(j).partition
        /\ IsSome(calls[i].stored)
        /\ PolledMessage(i).offset <= Unwrap(calls[i].stored)
        /\ IsSome(calls[i].seek)
        /\ IsSome(calls[j].stored)
        /\ PolledMessage(j).offset > Unwrap(calls[j].stored)
        /\ ReturnedAsData(j)
        /\ ~IsSome(calls[k].stored)
        /\ ReturnedAsData(k)

---------------------------------------------------------------------------
(* Offsets of the Data events of one reader, checked under SpecReaders.    *)

DataOn(run, i) == run[i].kind = "Data"
\* the Data events of a run carry, key by key, strictly increasing offset values
OffsetsIncrease(run) ==
    \A i, j \in DOMAIN run :
        (/\ i < j
         /\ DataOn(run, i)
         /\ DataOn(run, j)
         /\ Unwrap(run[i].offset).key = Unwrap(run[j].offset).key)
        => OrderOf(Unwrap(run[i].offset).value) < OrderOf(Unwrap(run[j].offset).value)

\* C2 as stated: for every reader, the embedded-SQL reader included, the offset
\* values of the Data events returned by one reader on one offset key are
\* strictly increasing under the key's comparator, in a run started without a
\* seek (run0, events) and in a run started with one (events after a restart).
OffsetMonotonicity == OffsetsIncrease(events) /\ OffsetsIncrease(run0)

\* C2 amended: the same for every reader but the embedded-SQL reader, whose Data
\* events all carry the one constant EMPTY_OFFSET.
OffsetMonotonicityOfSeekableReaders == ~IsSqliteReader => OffsetMonotonicity

\* a reader that was sought to a position has since returned two Data events on
\* one key
OffsetMonotonicityWitness ==
    /\ ~IsSqliteReader
    /\ IsSome(frontier)
    /\ Unwrap(frontier) /= EmptyAntichain
    /\ \E i, j \in DOMAIN events :
         /\ i < j
         /\ DataOn(events, i)
         /\ DataOn(events, j)
         /\ Unwrap(events[i].offset).key = Unwrap(events[j].offset).key

---------------------------------------------------------------------------
(* Seek with a frontier that holds no position of the reader's kind,       *)
(* checked under SpecReaders.                                              *)

\* the variant of offset value the reader's seek decodes
ExpectedVariant(r) ==
    CASE r.storage \in {"FileSystem", "CsvFilesystem"} -> "FilePosition"
      [] r.storage \in {"S3Lines", "S3Csv"} -> "S3ObjectPosition"
      [] r.storage = "Python" -> "PythonEntrySequentialId"
      [] OTHER -> "KafkaOffset"

\* f holds no value for the key Empty, or one of a variant r does not expect
HoldsNoPositionOf(r, f) ==
    KeyEmpty \in DOMAIN f => f[KeyEmpty].variant /= ExpectedVariant(r)

\* the entries of f that are positions of partitions of the reader's topic
KafkaPositionsOf(r, f) ==
    [q \in {x \in Partitions : /\ KeyKafka(r.topic, x) \in DOMAIN f
                               /\ f[KeyKafka(r.topic, x)].variant = "KafkaOffset"}
        |-> f[KeyKafka(r.topic, q)].position]

\* this step is the call of seek on the reader just constructed
SeekIsCalled == ~IsSome(frontier) /\ IsSome(frontier')

\* C11: seek with a frontier that holds, for the reader's key, no value or a
\* value of a variant the reader does not expect returns Ok and leaves the
\* reader as it was constructed; seek of the message-bus reader records the
\* positions of its topic's partitions and skips every other entry.
VariantMismatchInSeek ==
    [][SeekIsCalled =>
        /\ (ReadsFiles /\ HoldsNoPositionOf(rd, Unwrap(frontier'))) =>
              /\ seek_result' = "Ok"
              /\ rd' = rd
              /\ rd' = Reader_new(rd')
        /\ (IsPythonReader /\ HoldsNoPositionOf(rd, Unwrap(frontier'))) =>
              /\ seek_result' = "Ok"
              /\ rd' = PythonReader_new
        /\ IsKafkaReader =>
              /\ seek_result' = "Ok"
              /\ rd' = [KafkaReader_new(rd.topic) EXCEPT
                          !.positions_for_seek = KafkaPositionsOf(rd, Unwrap(frontier'))]
    ]_vars

\* a reader of files sought with the position of a message-bus partition has
\* since started on the files from their beginning
VariantMismatchInSeekWitness ==
    /\ ReadsFiles
    /\ phase = "second"
    /\ frontier = Some([k \in {KeyEmpty} |-> KafkaOffset(1)])
    /\ seek_result = "Ok"
    /\ \E i \in DOMAIN events :
         /\ DataOn(events, i)
         /\ Unwrap(events[i].offset).value.total_entries_read = 1

\* the message-bus reader was sought with a frontier that holds an entry of
\* another variant besides a position, and recorded the position
VariantMismatchKafkaReached ==
    /\ IsKafkaReader
    /\ IsSome(frontier)
    /\ \E k \in DOMAIN Unwrap(frontier) : Unwrap(frontier)[k].variant /= "KafkaOffset"
    /\ calls = <<>>
    /\ rd.positions_for_seek /= EmptyMap

---------------------------------------------------------------------------
(* Properties of the external-subject reader, checked under SpecPython.    *)

\* the reader as call i of read() left it
AfterCall(i) == IF i < Len(calls) THEN calls[i + 1].before ELSE rd
\* call i of read() called the subject's read method, which returned a response
Delivered(i) == "read" \in {calls[i].called[n] : n \in DOMAIN calls[i].called}
                /\ ~calls[i].response.raises
IsTerminator(i) == Delivered(i) /\ is_special(calls[i].response.values, FINISH_LITERAL)
\* the event of call i is one the subject has not opted in to
IsRejected(i) ==
    Delivered(i) /\ calls[i].response.event /= "Insert" /\ ~source.deletions_enabled
\* how many times call i called the method of the subject
TimesCalled(i, method) ==
    Cardinality({n \in DOMAIN calls[i].called : calls[i].called[n] = method})
\* the id the reader counts from: the one seek restored, or 0
SoughtId ==
    IF /\ IsSome(frontier)
       /\ KeyEmpty \in DOMAIN Unwrap(frontier)
       /\ Unwrap(frontier)[KeyEmpty].variant = "PythonEntrySequentialId"
    THEN Unwrap(frontier)[KeyEmpty].position
    ELSE 0
\* the Data events among the first i results
DataUpTo(i) == {j \in 1..i : events[j].kind = "Data"}

\* C12: the k-th Data event of PythonReader carries the offset (Empty,
\* PythonEntrySequentialId(n + k)), n being the id restored by seek and 0
\* without one; a call of read() advances the id by one when it returns Data,
\* which it does for every accepted event that is not the terminator, and
\* leaves it alone otherwise.
ExternalSubjectOffsets ==
    IsPythonReader =>
        /\ \A i \in DOMAIN events :
              events[i].kind = "Data" =>
                  events[i].offset =
                      Some([key |-> KeyEmpty,
                            value |-> PythonEntrySequentialId(
                                          SoughtId + Cardinality(DataUpTo(i)))])
        /\ \A i \in DOMAIN calls :
              /\ AfterCall(i).total_entries_read =
                    calls[i].before.total_entries_read
                    + (IF calls[i].out.kind = "Data" THEN 1 ELSE 0)
              /\ (Delivered(i) /\ ~IsRejected(i) /\ ~IsTerminator(i)) =>
                    calls[i].out.kind = "Data"

\* after a seek to an id above 0 the reader returned Data, then a result that
\* is no Data, then Data again
ExternalSubjectOffsetsWitness ==
    /\ IsPythonReader
    /\ SoughtId > 0
    /\ Len(events) = 3
    /\ events[1].kind = "Data"
    /\ events[2].kind = "Err"
    /\ events[3].kind = "Data"

\* the terminator of call i ended the stream: end() was called once, the call
\* returned Finished unless end() raised, and every later call returned
\* Finished without calling read() or end()
EndsTheStream(i) ==
    /\ TimesCalled(i, "end") = 1
    /\ calls[i].out = Finished \/ calls[i].out = ReadErr("Py")
    /\ calls[i].out.kind /= "Data"
    /\ \A j \in DOMAIN calls :
          j > i => /\ calls[j].out = Finished
                   /\ TimesCalled(j, "read") = 0
                   /\ TimesCalled(j, "end") = 0

\* a row that holds the special field among others, or with another value,
\* is returned as Data
SpecialFieldIsData ==
    \A i \in DOMAIN calls :
        (/\ Delivered(i)
         /\ ~IsRejected(i)
         /\ calls[i].response.values \in {FinishRow \o Row, OtherSpecialRow})
        => /\ calls[i].out.kind = "Data"
           /\ calls[i].out.payload[2] = calls[i].response.values

\* C13 as stated: whenever the subject's read() yields the terminator, read()
\* calls end() once and returns Finished without Data, and every later read()
\* returns Finished without calling read() or end(); a row with the special
\* field and other fields, or with another value, is an ordinary Data event.
SubjectTermination ==
    IsPythonReader =>
        /\ \A i \in DOMAIN calls : IsTerminator(i) => EndsTheStream(i)
        /\ SpecialFieldIsData

\* C13 amended: the same for a terminator in an event that is not rejected; a
\* terminator in a Delete or Upsert event of a subject that has not enabled
\* deletions is rejected with an error, end() is not called and the stream
\* goes on.
SubjectTerminationUnlessRejected ==
    IsPythonReader =>
        /\ \A i \in DOMAIN calls :
              /\ (IsTerminator(i) /\ ~IsRejected(i)) => EndsTheStream(i)
              /\ (IsTerminator(i) /\ IsRejected(i)) =>
                    /\ calls[i].out = ReadErr("Py")
                    /\ TimesCalled(i, "end") = 0
                    /\ ~AfterCall(i).is_finished
        /\ SpecialFieldIsData

\* a row with the special field among others was returned as Data, then the
\* terminator ended the stream, then read() was called again
SubjectTerminationWitness ==
    /\ IsPythonReader
    /\ Len(calls) = 3
    /\ calls[1].response.values = FinishRow \o Row
    /\ calls[1].out.kind = "Data"
    /\ IsTerminator(2)
    /\ calls[2].out = Finished
    /\ calls[3].out = Finished

\* C14: an event of kind Delete or Upsert supplied by a subject with
\* deletions_enabled = false makes read() return an error, no Data, and leaves
\* the sequential id as it was; with deletions_enabled = true such an event
\* (the terminator apart, which is no event: C13) is returned as Data of its
\* kind.
SubjectRejection ==
    IsPythonReader =>
        \A i \in DOMAIN calls :
            (Delivered(i) /\ calls[i].response.event /= "Insert") =>
                IF source.deletions_enabled
                THEN ~IsTerminator(i) =>
                        /\ calls[i].out.kind = "Data"
                        /\ calls[i].out.event = calls[i].response.event
                ELSE /\ calls[i].out = ReadErr("Py")
                     /\ AfterCall(i).total_entries_read =
                           calls[i].before.total_entries_read
                     /\ \A j \in DOMAIN calls :
                           (j > i /\ calls[j].out.kind = "Data") =>
                               Unwrap(calls[j].out.offset).value.position
                                   = SoughtId + Cardinality(DataUpTo(j))

\* a Data event, a rejected Delete or Upsert, and a Data event with the next id
SubjectRejectionWitness ==
    /\ IsPythonReader
    /\ ~source.deletions_enabled
    /\ Len(calls) = 3
    /\ calls[1].out.kind = "Data"
    /\ IsRejected(2)
    /\ calls[3].out.kind = "Data"
    /\ Unwrap(calls[3].out.offset).value.position
           = Unwrap(calls[1].out.offset).value.position + 1

---------------------------------------------------------------------------
(* Properties of the embedded-SQL reader, checked under SpecSqlite.  Each  *)
(* entry of calls is one reload: the table read, stored_state before and   *)
(* after it, and the queue load_table left.                                *)

\* the Data events a reload enqueued, and those among them of the row r
ReloadData(c) == SelectSeq(c.queued_updates, IsData)
ReloadDataOf(c, r) ==
    SelectSeq(c.queued_updates, LAMBDA e : IsData(e) /\ e.payload[1] = Some(<<r>>))

\* what the reload is to enqueue for the rowid r
ReloadDiffOf(c, r) ==
    IF r \in DOMAIN c.table
    THEN IF r \notin DOMAIN c.before
         THEN <<SqliteDiff("Insert", r, c.table[r])>>
         ELSE IF c.before[r] = c.table[r]
         THEN <<>>
         ELSE <<SqliteDiff("Delete", r, c.before[r]), SqliteDiff("Insert", r, c.table[r])>>
    ELSE IF r \in DOMAIN c.before
    THEN <<SqliteDiff("Delete", r, c.before[r])>>
    ELSE <<>>

\* C15: a reload enqueues, for a row of the table with rowid r, Insert(r,
\* values) when r is not in stored_state, nothing when stored_state[r] equals
\* the row, and Delete(r, old values) immediately followed by Insert(r, new
\* values) when it differs; for a rowid of stored_state absent from the table
\* it enqueues Delete(r, old values); it enqueues no other Data event.
ReloadDiff ==
    IsSqliteReader =>
        \A i \in DOMAIN calls :
            LET c == calls[i]
                q == c.queued_updates
            IN /\ \A r \in Rowids : ReloadDataOf(c, r) = ReloadDiffOf(c, r)
               /\ \A n \in DOMAIN q :
                     IsData(q[n]) => \E r \in Rowids : q[n].payload[1] = Some(<<r>>)
               /\ \A n \in DOMAIN q :
                     (IsData(q[n]) /\ q[n].event = "Delete"
                        /\ Unwrap(q[n].payload[1])[1] \in DOMAIN c.table)
                     => /\ n < Len(q)
                        /\ q[n + 1] = SqliteDiff("Insert", Unwrap(q[n].payload[1])[1],
                                                  c.table[Unwrap(q[n].payload[1])[1]])

\* a reload found one stored row changed and the other one gone
ReloadDiffWitness ==
    /\ IsSqliteReader
    /\ \E i \in DOMAIN calls :
         /\ DOMAIN calls[i].before = {1, 2}
         /\ DOMAIN calls[i].table = {1}
         /\ calls[i].table[1] /= calls[i].before[1]
         /\ Len(ReloadData(calls[i])) = 3

---------------------------------------------------------------------------
(* Properties of the filesystem readers in Static mode, checked under      *)
(* SpecStatic.                                                             *)

\* the positions at which the lines of a content end
LineEnds(content) == {i \in 1..Len(content) : content[i] = NL \/ i = Len(content)}
\* the lines of a content, each with its terminator
LinesOf(content) ==
    LET ends == SortedSeq(LineEnds(content))
    IN [k \in 1..Len(ends) |-> Slice(content, IF k = 1 THEN 0 ELSE ends[k - 1], ends[k])]

ExistingFiles == {p \in Paths : Exists(disk, p)}
IsLineReader == rd.storage = "FileSystem" /\ rd.read_method = "ByLine"

\* result i of the run over the single file of the given lines is as expected
IsExpectedResult(i, lines) ==
    IF i = 1 THEN events[i].kind = "NewSource"
    ELSE IF i <= Len(lines) + 1
    THEN /\ events[i].kind = "Data"
         /\ events[i].event = "Insert"
         /\ events[i].payload = lines[i - 1]
    ELSE IF i = Len(lines) + 2 THEN events[i] = FinishedSource(TRUE)
    ELSE i = Len(lines) + 3 /\ events[i] = Finished

\* C16: the results of a FilesystemReader in Static mode with
\* ReadMethod::ByLine over one existing file of n lines are NewSource, the n
\* lines in file order as Data events of kind Insert, FinishedSource with
\* commit_allowed true, Finished.
StaticLineReading ==
    (IsLineReader /\ ~IsStreaming /\ Cardinality(ExistingFiles) = 1) =>
        \A p \in ExistingFiles :
            \A i \in DOMAIN events : IsExpectedResult(i, LinesOf(Unwrap(disk[p]).content))

\* the run over a file of two lines came to Finished
StaticLineReadingWitness ==
    /\ IsLineReader
    /\ ~IsStreaming
    /\ ExistingFiles = {"a"}
    /\ Unwrap(disk["a"]).content = ContentHX
    /\ Len(events) = 5
    /\ LastKind = "Finished"

\* the NewSource results that opened the file p for reading
OpeningsOf(p) ==
    {i \in DOMAIN events : events[i].kind = "NewSource" /\ scans[i].action = Some(ActionRead(p))}

\* the run is over: Finished was returned, each existing file was opened by
\* one NewSource, nothing else was opened and no Delete was returned
StaticRunIsDone ==
    /\ LastKind = "Finished"
    /\ \A p \in ExistingFiles : Cardinality(OpeningsOf(p)) = 1
    /\ \A i \in DOMAIN events :
          /\ events[i].kind = "NewSource" => \E p \in ExistingFiles : i \in OpeningsOf(p)
          /\ events[i].event /= "Delete"

\* C17: a filesystem reader in Static mode over a fixed set of files returns
\* Finished after finitely many calls of read(), having opened each matching
\* file by exactly one NewSource and returned no Delete event.
StaticTermination == <>StaticRunIsDone

\* a run over two files came to Finished
StaticTerminationWitness ==
    /\ ~IsStreaming
    /\ ExistingFiles = Paths
    /\ StaticRunIsDone

---------------------------------------------------------------------------
(* Properties of FilesystemReader with ReadMethod::Full, checked under     *)
(* SpecFull.                                                               *)

IsFullReader == rd.storage = "FileSystem" /\ rd.read_method = "Full"

\* the content of the file the NewSource i opened: the watched file for an
\* insertion, for a deletion the copy cached when the file was last inserted
OpenedContent(i) ==
    LET act == Unwrap(scans[i].action) IN
    IF act.action = "Read"
    THEN scans[i].content[act.path]
    ELSE LET j == CHOOSE k \in InsertionsBefore(i, act.path) :
                      \A n \in InsertionsBefore(i, act.path) : n <= k
         IN scans[j].content[act.path]

\* C18: with ReadMethod::Full a source opened by NewSource yields one Data
\* event holding the whole content of the file, an empty file included, and
\* the next result is FinishedSource with commit_allowed =
\* !has_planned_insertion() as it was when the Data was produced; no Data
\* event comes otherwise.
FullReadMethod ==
    IsFullReader =>
        \A i \in DOMAIN events :
            /\ events[i].kind = "NewSource" =>
                  /\ IsSome(scans[i].action)
                  /\ i < Len(events) =>
                        /\ events[i + 1].kind = "Data"
                        /\ events[i + 1].payload = OpenedContent(i)
                        /\ events[i + 1].event =
                              (IF Unwrap(scans[i].action).action = "Read"
                               THEN "Insert" ELSE "Delete")
                  /\ i + 1 < Len(events) =>
                        events[i + 2] = FinishedSource(~IsSome(scans[i + 1].planned))
            /\ events[i].kind = "Data" => (i > 1 /\ events[i - 1].kind = "NewSource")

\* an empty file gave one empty Data event, and the deletion half of a
\* modified file was closed with commit_allowed false
FullReadMethodWitness ==
    /\ IsFullReader
    /\ \E i \in DOMAIN events :
         /\ events[i].kind = "Data"
         /\ events[i].payload = ContentEmpty
    /\ \E i \in DOMAIN events :
         /\ events[i].kind = "Data"
         /\ events[i].event = "Delete"
         /\ i < Len(events)
         /\ events[i + 1] = FinishedSource(FALSE)

---------------------------------------------------------------------------
(* The metadata and the offsets of a deletion, checked under SpecFs.       *)

\* result i opens the deletion of p
OpensDeletion(i, p) ==
    events[i].kind = "NewSource" /\ scans[i].action = Some(ActionDelete(p))

\* C19: the NewSource that opens the deletion of p carries the metadata of
\* the NewSource that opened the most recent insertion of p, which is the
\* metadata p had then, whatever it is now; the Data events of the deletion
\* are Delete events whose offsets name p itself, not its cached copy.
DeletionMetadata ==
    \A p \in Paths : \A i \in DOMAIN events :
        /\ OpensDeletion(i, p) =>
              \E j \in InsertionsBefore(i, p) :
                  /\ \A k \in InsertionsBefore(i, p) : k <= j
                  /\ events[i].metadata = events[j].metadata
                  /\ events[i].metadata = Some(scans[j].metadata[p])
        /\ (events[i].kind = "Data" /\ scans[i].action = Some(ActionDelete(p))) =>
              /\ events[i].event = "Delete"
              /\ Unwrap(events[i].offset).value.variant = "FilePosition"
              /\ Unwrap(events[i].offset).value.path = p

\* the deletion of a file that exists with other metadata than it was inserted
\* with was opened, and a Delete event of it returned
DeletionMetadataWitness ==
    \E p \in Paths : \E i \in DOMAIN events :
        /\ OpensDeletion(i, p)
        /\ p \in scans[i].existing
        /\ events[i].metadata /= Some(scans[i].metadata[p])
        /\ i < Len(events)
        /\ events[i + 1].kind = "Data"
        /\ events[i + 1].event = "Delete"

---------------------------------------------------------------------------
(* The header replayed by the seek of a delimited reader, checked under    *)
(* SpecDelimited.                                                          *)

\* the records of a content: its lines without their terminators
RecordsOf(content) ==
    LET lines == LinesOf(content)
    IN [k \in DOMAIN lines |->
           IF lines[k][Len(lines[k])] = NL
           THEN SubSeq(lines[k], 1, Len(lines[k]) - 1) ELSE lines[k]]
\* the records that start at the byte b of a content, and where they end
RecordsAt(content, b) ==
    LET ends == SortedSeq(LineEnds(content))
    IN {k \in DOMAIN ends : (IF k = 1 THEN 0 ELSE ends[k - 1]) = b}
EndOfRecord(content, k) == SortedSeq(LineEnds(content))[k]

SoughtContent == Unwrap(disk[FrontierValue.path]).content
PositionLike(f, total_entries_read, bytes_offset) ==
    [f EXCEPT !.total_entries_read = total_entries_read, !.bytes_offset = bytes_offset]

\* result i is the record k of the sought file, counted as the entry after
\* the frontier
IsRecordAfterFrontier(i, k) ==
    events[i] = Data("Insert", RecordsOf(SoughtContent)[k], KeyEmpty,
                     PositionLike(FrontierValue, FrontierValue.total_entries_read + 1,
                                  EndOfRecord(SoughtContent, k)))

\* C20: after the seek of CsvFilesystemReader or S3CsvReader to a frontier
\* with bytes_offset > 0 the first read() returns the header row of the file
\* as Data tagged with the frontier's own offset, no later result is the
\* header again, and the next read() returns the record that starts at
\* bytes_offset with total_entries_read = the frontier's + 1; after a seek
\* with bytes_offset = 0 nothing is deferred and the first read() returns the
\* first record of the file in that way.
HeaderReplayedOnce ==
    (phase = "second" /\ SoughtPosition) =>
        LET f == FrontierValue IN
        IF f.bytes_offset > 0
        THEN /\ seek_result = "Ok"
             /\ events = <<>> => rd.deferred_read_result /= None
             /\ Len(events) >= 1 =>
                   events[1] = Data("Insert", RecordsOf(SoughtContent)[1], KeyEmpty, f)
             /\ \A i \in DOMAIN events :
                   (i > 1 /\ events[i].kind = "Data"
                      /\ Unwrap(events[i].offset).value.path = f.path)
                   => Unwrap(events[i].offset).value.bytes_offset > f.bytes_offset
             /\ Len(events) >= 2 =>
                   \A k \in RecordsAt(SoughtContent, f.bytes_offset) :
                       IsRecordAfterFrontier(2, k)
        ELSE /\ seek_result = "Ok"
             /\ events = <<>> => rd.deferred_read_result = None
             /\ Len(events) >= 1 =>
                   \A k \in RecordsAt(SoughtContent, 0) : IsRecordAfterFrontier(1, k)

\* a reader sought behind the header of a file of two records returned the
\* header and then the second record
HeaderReplayedOnceWitness ==
    /\ phase = "second"
    /\ SoughtPosition
    /\ FrontierValue.bytes_offset = 2
    /\ SoughtContent = ContentHX
    /\ Len(events) >= 3
    /\ events[1].payload = <<"h">>
    /\ events[2].payload = <<"x">>
    /\ events[3].kind /= "Data"


---------------------------------------------------------------------------
(* C21: the loader threads of an S3Scanner.                                *)

\* the loader threads that have not returned
AliveThreads == {i \in 1..Len(threads) : ~threads[i].ended}

\* the thread whose JoinHandle the scanner's current_object holds
CurrentThread == IF IsSome(rd.s3_scanner.current_object) THEN {Len(threads)} ELSE {}

\* at most one loader thread is alive
OneLoaderThreadAlive == Cardinality(AliveThreads) <= 1

\* a scanner has joined every thread it spawned before the one it spawned last
PreviousWorkerJoined ==
    \A i, j \in 1..Len(threads) :
        (i < j /\ threads[i].scanner = threads[j].scanner) => threads[i].joined

\* once the reader is dropped, the thread of its current object was joined
WorkerJoinedOnDrop ==
    phase = "dropped" => \A i \in CurrentThread : threads[i].joined

\* read() switches objects while the previous object's worker has ended with an error
SwitchesAfterWorkerError ==
    /\ IsS3Reader
    /\ events' /= events \/ rd' /= rd
    /\ phase' = phase
    /\ ScanIsDue
    /\ IsSome(rd.s3_scanner.current_object)
    /\ Unwrap(rd.s3_scanner.current_object).loader_thread = "Err"

\* that read() returns the worker's error, having joined it, and starts no worker
WorkerErrorSurfaces ==
    [][SwitchesAfterWorkerError =>
          /\ Len(events') = Len(events) + 1
          /\ events'[Len(events')] = ReadErr("S3")
          /\ Len(threads') = Len(threads)
          /\ threads'[Len(threads)].joined
          /\ ~IsSome(rd'.s3_scanner.current_object)]_vars

\* C21: an S3Scanner has at most one loader thread alive, has joined the worker
\* of the previous object before it starts the next one, and the worker of the
\* current object is joined when the reader is dropped
WorkerDiscipline ==
    /\ IsS3Reader => OneLoaderThreadAlive
    /\ IsS3Reader => PreviousWorkerJoined
    /\ IsS3Reader => WorkerJoinedOnDrop

\* the part of C21 that the scanner keeps while it is in use
WorkerDisciplineInUse ==
    /\ IsS3Reader => OneLoaderThreadAlive
    /\ IsS3Reader => PreviousWorkerJoined

\* a reader is dropped while the loader thread of its current object is running
WorkerDroppedUnjoined ==
    /\ IsS3Reader
    /\ phase = "dropped"
    /\ \E i \in CurrentThread : ~threads[i].joined /\ ~threads[i].ended

\* a read() has joined the failed worker of one object and a later one has
\* started the worker of the next
WorkerSwitchReached ==
    /\ IsS3Reader
    /\ Len(threads) >= 2
    /\ threads[1].scanner = threads[2].scanner
    /\ threads[1].joined

---------------------------------------------------------------------------
(* C22: every source that is opened is closed.                             *)

\* the NewSource at i is followed by a FinishedSource before result j
ClosedBefore(i, j) ==
    \E k \in (i + 1)..(j - 1) : events[k].kind = "FinishedSource"

\* every NewSource has its FinishedSource before the next NewSource or Finished
SourcesAreClosed ==
    \A i, j \in 1..Len(events) :
        (/\ i < j
         /\ events[i].kind = "NewSource"
         /\ events[j].kind \in {"NewSource", "Finished"}) => ClosedBefore(i, j)

\* C22: for every reader that returns NewSource, each NewSource is followed by
\* a FinishedSource of that source before the next NewSource or Finished.
EverySourceIsClosed == ReadsFiles => SourcesAreClosed

\* the same of FilesystemReader and of S3GenericReader with ReadMethod::Full
EverySourceIsClosedByLineReaders ==
    (rd.storage = "FileSystem" \/ (rd.storage = "S3Lines" /\ rd.read_method = "Full"))
        => SourcesAreClosed

---------------------------------------------------------------------------
(* C23: the batching of PsqlWriter, checked under SpecPsql.                *)

\* the transactions opened by call i
OpenedBy(i) ==
    LET upto == IF i < Len(calls) THEN calls[i + 1].transactions
                ELSE Len(source.transactions)
    IN {t \in 1..Len(source.transactions) : calls[i].transactions < t /\ t <= upto}

\* call i has flushed the buffer b: one transaction holding the payloads of b in
\* write order, committed
FlushedInOneTransaction(i, b) ==
    /\ Cardinality(OpenedBy(i)) = 1
    /\ \A t \in OpenedBy(i) :
         /\ source.transactions[t].executed = Queries(b)
         /\ source.transactions[t].committed

\* a successful write leaves fewer than max_batch_size records in the buffer
WriteKeepsBufferBelow(i) ==
    (/\ calls[i].method = "write"
     /\ calls[i].result = "Ok"
     /\ IsSome(rd.max_batch_size)) => Len(calls[i].after) < Unwrap(rd.max_batch_size)

\* a write that receives the record filling the batch flushes all of it
WriteFlushesFullBatch(i) ==
    (/\ calls[i].method = "write"
     /\ calls[i].result = "Ok"
     /\ IsSome(rd.max_batch_size)
     /\ Len(calls[i].before) + 1 = Unwrap(rd.max_batch_size)) =>
        /\ FlushedInOneTransaction(i, Append(calls[i].before, calls[i].data))
        /\ calls[i].after = <<>>

\* without max_batch_size a write buffers the record and opens no transaction
WriteNeverFlushes(i) ==
    (calls[i].method = "write" /\ ~IsSome(rd.max_batch_size)) =>
        /\ calls[i].result = "Ok"
        /\ calls[i].after = Append(calls[i].before, calls[i].data)
        /\ OpenedBy(i) = {}

\* a flush of a non-empty buffer that returns Ok
FlushOfBuffer(i) ==
    (/\ calls[i].method = "flush"
     /\ calls[i].result = "Ok"
     /\ calls[i].before /= <<>>) =>
        /\ FlushedInOneTransaction(i, calls[i].before)
        /\ calls[i].after = <<>>

\* a flush of an empty buffer
FlushOfNothing(i) ==
    (calls[i].method = "flush" /\ calls[i].before = <<>>) =>
        /\ calls[i].result = "Ok"
        /\ calls[i].after = <<>>
        /\ OpenedBy(i) = {}

\* C23: with max_batch_size Some(n) the buffer holds fewer than n records after
\* every successful write, the n-th record triggering a flush; with None write
\* never flushes; a flush of a non-empty buffer executes all buffered payloads
\* in write order in one committed transaction and empties the buffer; a flush
\* of an empty buffer opens no transaction.
RowStoreBatching ==
    IsPsqlWriter =>
        \A i \in 1..Len(calls) :
            /\ WriteKeepsBufferBelow(i)
            /\ WriteFlushesFullBatch(i)
            /\ WriteNeverFlushes(i)
            /\ FlushOfBuffer(i)
            /\ FlushOfNothing(i)

\* no call before i has returned an error
NoErrorBefore(i) == \A j \in 1..(i - 1) : calls[j].result = "Ok"

\* the same while no call has failed
RowStoreBatchingWithoutFailure ==
    IsPsqlWriter =>
        \A i \in 1..Len(calls) :
            /\ NoErrorBefore(i) => WriteKeepsBufferBelow(i)
            /\ WriteFlushesFullBatch(i)
            /\ WriteNeverFlushes(i)
            /\ FlushOfBuffer(i)
            /\ FlushOfNothing(i)

\* a write has returned Ok with max_batch_size records or more in the buffer
BufferOverfullReached ==
    /\ IsPsqlWriter
    /\ IsSome(rd.max_batch_size)
    /\ \E i \in 1..Len(calls) :
         /\ calls[i].method = "write"
         /\ calls[i].result = "Ok"
         /\ Len(calls[i].after) > Unwrap(rd.max_batch_size)

---------------------------------------------------------------------------
(* C24: the flush policy of DeltaTableWriter, checked under SpecDelta.     *)

\* call i has committed a batch
Committed(i) ==
    LET upto == IF i < Len(calls) THEN calls[i + 1].committed ELSE Len(source.committed)
    IN upto > calls[i].committed

\* the time of the last commit before call i, or of the construction
LastCommitBefore(i) ==
    LET commits == {j \in 1..(i - 1) : Committed(j)} IN
    IF commits = {} THEN 0
    ELSE calls[CHOOSE j \in commits : \A k \in commits : k <= j].now

\* the time elapsed at call i since the last commit
ElapsedSinceLastCommit(i) == calls[i].now - LastCommitBefore(i)

\* flush(forced) is to commit at call i: the buffer is non-empty and forced is
\* true, or no min_commit_frequency is set, or that much time has elapsed
CommitIsDue(i, elapsed_time) ==
    /\ calls[i].before[1] /= <<>>
    /\ \/ calls[i].forced
       \/ ~IsSome(rd.min_commit_frequency)
       \/ elapsed_time >= Unwrap(rd.min_commit_frequency)

\* what a flush does, the elapsed time being given
FlushFollowsPolicy(i, elapsed_time) ==
    calls[i].method = "flush" =>
        /\ calls[i].result = "Ok" => (Committed(i) <=> CommitIsDue(i, elapsed_time))
        /\ Committed(i) => \A c \in DOMAIN calls[i].after : calls[i].after[c] = <<>>
        /\ ~Committed(i) => calls[i].after = calls[i].before

\* all columns hold the same number of values
ColumnsAreEven(columns) ==
    \A c, d \in DOMAIN columns : Len(columns[c]) = Len(columns[d])

FlushPolicySinceLastCommit ==
    IsDeltaTableWriter =>
        \A i \in 1..Len(calls) : FlushFollowsPolicy(i, ElapsedSinceLastCommit(i))

---------------------------------------------------------------------------
(* C25: a file that is removed between its Delete and its reinsertion.     *)

\* read() asks the scanner for the next action while the reinsertion of p is
\* planned after Delete(p) and p does not exist
AsksWithVanishedPlan(p) ==
    /\ IsFsReader
    /\ phase' = phase
    /\ rd' /= rd \/ events' /= events
    /\ ScanIsDue
    /\ rd.filesystem_scanner.current_action = Some(ActionDelete(p))
    /\ rd.filesystem_scanner.next_file_for_insertion = Some(p)
    /\ ~Exists(disk, p)

\* C25: the scanner then returns FinishedSource{commit_allowed: true} and no
\* Insert of p, clears next_file_for_insertion and current_action and leaves p
\* out of known_files.
VanishedReinsertion ==
    [][\A p \in Paths :
         AsksWithVanishedPlan(p) =>
            /\ events' = Append(events, FinishedSource(TRUE))
            /\ rd'.filesystem_scanner.next_file_for_insertion = None
            /\ rd'.filesystem_scanner.current_action = None
            /\ p \notin DOMAIN rd'.filesystem_scanner.known_files]_vars

\* the Delete of a modified file was closed without commit, the file vanished
\* and the next result was FinishedSource{commit_allowed: true}
VanishedReinsertionWitness ==
    /\ IsFsReader
    /\ \E i \in 2..Len(events) : \E p \in Paths :
         /\ scans[i - 1].action = Some(ActionDelete(p))
         /\ scans[i - 1].planned = Some(p)
         /\ p \notin scans[i].existing
         /\ events[i] = FinishedSource(TRUE)
         /\ scans[i].action = None
         /\ scans[i].planned = None

---------------------------------------------------------------------------
(* Properties of the filesystem scanner's selections: determinism.         *)

\* the file the loop of next_insertion_entry is left with, the glob handing
\* out the matching paths in the given order
SelectedInOrder(entries) ==
    selected_file_loop(rd.filesystem_scanner, disk, None, entries)

\* the path the loop of next_deletion_entry is left with, the hash map
\* known_files being iterated in the given order
DeletedInOrder(entries) ==
    path_for_deletion_loop(rd.filesystem_scanner, disk, None, entries)

\* whatever the order, the insertion the scanner opens is the one the loop
\* selects, and it opens none exactly when the loop selects none
InsertionIgnoresOrder ==
    \A entries \in IterationOrders(get_matching_file_paths(disk)) :
        LET opened == next_insertion_entry(rd.filesystem_scanner, disk)
            selected_file == SelectedInOrder(entries)
        IN IF IsSome(selected_file)
           THEN /\ opened.tag = "Ok"
                /\ opened.sc.current_action = Some(ActionRead(Unwrap(selected_file)))
           ELSE opened.tag = "Ok" /\ opened.val = None

DeletionIgnoresOrder ==
    \A entries \in IterationOrders(DOMAIN rd.filesystem_scanner.known_files) :
        DeletedInOrder(entries) = path_for_deletion(rd.filesystem_scanner, disk)

\* the watched files that exist have pairwise distinct modification times
DistinctModificationTimes ==
    \A p, q \in get_matching_file_paths(disk) :
        p /= q => Unwrap(disk[p]).mtime /= Unwrap(disk[q]).mtime

\* a second reader of the same configuration runs from the start over the
\* files the first one ran over
SecondRunOverSameFiles ==
    /\ IsFsReader
    /\ phase = "second"
    /\ frontier = Some(EmptyAntichain)
    /\ changes = 0
    /\ DistinctModificationTimes

\* C26: over a fixed set of files with pairwise distinct modification times
\* and in the same mode, two independent runs of the scanner return the same
\* sequence of results (order of sources, rows within a source, offsets),
\* whatever the order in which the directory is enumerated and the hash map
\* known_files is iterated.
FilesystemDeterminism ==
    /\ IsFsReader => InsertionIgnoresOrder /\ DeletionIgnoresOrder
    /\ SecondRunOverSameFiles =>
          /\ Len(events) <= Len(run0)
          /\ events = SubSeq(run0, 1, Len(events))
          /\ RunIsOver => events = run0

\* two files with distinct modification times were read twice from the start,
\* and the second run returned what the first one did
FilesystemDeterminismWitness ==
    /\ SecondRunOverSameFiles
    /\ Cardinality(get_matching_file_paths(disk)) = 2
    /\ RunIsOver
    /\ events = run0
    /\ Cardinality({i \in 1..Len(events) : events[i].kind = "NewSource"}) = 2

---------------------------------------------------------------------------
(* Properties of the cache of a Streaming scanner.                         *)

\* the cached copy of a watched path exists
HasCachedCopy(p) ==
    LET cached_path == cached_file_path(rd.filesystem_scanner, p)
    IN IsSome(cached_path) /\ Exists(disk, Unwrap(cached_path))

\* a reader that is running with deletions enabled
StreamingScannerRuns ==
    /\ IsFsReader
    /\ phase \in {"first", "second"}
    /\ are_deletions_enabled(rd.filesystem_scanner.streaming_mode)

\* C27: in Streaming mode, in every state reachable by seek and read calls and
\* filesystem changes, every path in known_files has a cached copy, also the
\* paths that seek_to_file put into known_files.
CacheInvariant ==
    StreamingScannerRuns =>
        \A p \in DOMAIN rd.filesystem_scanner.known_files : HasCachedCopy(p)

\* the same of a reader that was never sought
CacheInvariantWithoutSeek ==
    StreamingScannerRuns /\ phase = "first" =>
        \A p \in DOMAIN rd.filesystem_scanner.known_files : HasCachedCopy(p)

\* seek_to_file left a path in known_files that has no cached copy
SoughtWithoutCachedCopy ==
    /\ StreamingScannerRuns
    /\ phase = "second"
    /\ \E p \in DOMAIN rd.filesystem_scanner.known_files : ~HasCachedCopy(p)

---------------------------------------------------------------------------
(* Properties of the deletion selection.                                   *)

\* the known files that need deletion: gone, or with another mtime than stored
DeletionCandidates ==
    {p \in DOMAIN rd.filesystem_scanner.known_files :
        needs_deletion(rd.filesystem_scanner, disk, p)}

\* a call of read() in which next_deletion_entry opens the deletion of p
SelectsDeletion(p) ==
    /\ IsFsReader
    /\ phase' = phase
    /\ ScanIsDue
    /\ Len(events') = Len(events) + 1
    /\ events'[Len(events')].kind = "NewSource"
    /\ rd'.filesystem_scanner.current_action = Some(ActionDelete(p))

\* the statement with the greatest path: when several known files need
\* deletion, next_deletion_entry picks the greatest path in string order
DeletionPicksGreatestPath ==
    [][\A p \in Paths :
         SelectsDeletion(p) =>
            /\ p \in DeletionCandidates
            /\ \A q \in DeletionCandidates : PathOrd(p) >= PathOrd(q)]_vars

\* C28: when several known files need deletion (mtime differs from the stored
\* one, or metadata lookup reports not-found), next_deletion_entry picks the
\* one with the least path in string order, whatever the order in which
\* known_files is iterated.
DeletionPicksLeastPath ==
    [][\A p \in Paths :
         SelectsDeletion(p) =>
            /\ p \in DeletionCandidates
            /\ \A q \in DeletionCandidates : PathOrd(p) <= PathOrd(q)
            /\ \A entries \in IterationOrders(DOMAIN rd.filesystem_scanner.known_files) :
                  DeletedInOrder(entries) = Some(p)]_vars

\* two known files needed deletion, and the deletion of one was opened while
\* the other still waits
DeletionPicksLeastPathWitness ==
    /\ IsFsReader
    /\ LastKind = "NewSource"
    /\ \E p \in Paths :
          /\ rd.filesystem_scanner.current_action = Some(ActionDelete(p))
          /\ DeletionCandidates /= {}
          /\ p \notin DeletionCandidates

---------------------------------------------------------------------------
(* Properties of the insertion selection.                                  *)

\* no known file needs deletion, or deletions are not looked for
NoDeletionDue ==
    are_deletions_enabled(rd.filesystem_scanner.streaming_mode) => DeletionCandidates = {}

\* a call of read() that reaches next_insertion_entry: a scan is due, no
\* reinsertion is planned and no deletion is due
AsksForInsertion ==
    /\ IsFsReader
    /\ phase' = phase
    /\ rd' /= rd \/ events' /= events
    /\ ScanIsDue
    /\ ~IsSome(rd.filesystem_scanner.next_file_for_insertion)
    /\ NoDeletionDue

\* the call returns a NewSource
ReturnsNewSource ==
    /\ Len(events') = Len(events) + 1
    /\ events'[Len(events')].kind = "NewSource"

\* the call opens the insertion of p
SelectsInsertion(p) ==
    /\ AsksForInsertion
    /\ ReturnsNewSource
    /\ rd'.filesystem_scanner.current_action = Some(ActionRead(p))

\* (mtime, path) of p is the least among the candidates, mtime being what
\* modify_time returns for an entry
LeastCandidate(p) ==
    LET sc == rd.filesystem_scanner
        mt(q) == Unwrap(modify_time_value(sc, disk, q))
    IN /\ p \in InsertionCandidates(sc, disk)
       /\ \A q \in InsertionCandidates(sc, disk) : TupleLeq(mt(p), p, mt(q), q)

\* C29: next_insertion_entry picks, among the matching regular files that are
\* not in known_files and whose mtime can be resolved, the one minimizing
\* (mtime, path) lexicographically, whatever the order of the glob; it returns
\* None exactly when there is no such file; a file in known_files is never
\* selected.
InsertionPicksLeast ==
    [][/\ \A p \in Paths :
             SelectsInsertion(p) =>
                /\ p \notin DOMAIN rd.filesystem_scanner.known_files
                /\ LeastCandidate(p)
                /\ \A entries \in IterationOrders(get_matching_file_paths(disk)) :
                      SelectedInOrder(entries) = Some(p)
       /\ AsksForInsertion =>
             (ReturnsNewSource <=>
                 InsertionCandidates(rd.filesystem_scanner, disk) /= {})]_vars

\* two files were candidates, the insertion of one was opened and the other
\* still waits
InsertionPicksLeastWitness ==
    /\ IsFsReader
    /\ LastKind = "NewSource"
    /\ \E p \in Paths :
          /\ rd.filesystem_scanner.current_action = Some(ActionRead(p))
          /\ InsertionCandidates(rd.filesystem_scanner, disk) = Paths \ {p}
          /\ Unwrap(disk[p]).mtime > 0

---------------------------------------------------------------------------
(* Properties of the commit_allowed flag of the filesystem readers.        *)

\* the i-th result is a FinishedSource of a filesystem reader
IsFinishedSource(i) == IsFsReader /\ events[i].kind = "FinishedSource"

\* C30: every FinishedSource returned by a filesystem reader (line/full or
\* delimited) has commit_allowed = false if and only if the scanner's
\* next_file_for_insertion is Some at the moment the result is returned.
CommitAllowedFlag ==
    \A i \in 1..Len(events) :
        IsFinishedSource(i) =>
            (events[i].commit_allowed = FALSE <=> IsSome(scans[i].planned))

\* a source was closed with a reinsertion planned and commit_allowed = false,
\* and a later one with nothing planned and commit_allowed = true
CommitAllowedFlagWitness ==
    \E i, j \in 1..Len(events) :
        /\ i < j
        /\ IsFinishedSource(i) /\ IsFinishedSource(j)
        /\ events[i].commit_allowed = FALSE /\ IsSome(scans[i].planned)
        /\ events[j].commit_allowed = TRUE /\ ~IsSome(scans[j].planned)

---------------------------------------------------------------------------
(* Properties of the order in which the scanner serves its actions.        *)

\* a call of read() of a filesystem reader that asks the scanner for the next
\* action
AsksForNextAction ==
    /\ IsFsReader
    /\ phase' = phase
    /\ rd' /= rd \/ events' /= events
    /\ ScanIsDue

\* the call returns an error or panics
CallFails ==
    /\ Len(events') = Len(events) + 1
    /\ events'[Len(events')].kind \in {"Err", "Panic"}

\* the action the call leaves the scanner with
OpensAction(action) == rd'.filesystem_scanner.current_action = Some(action)

\* the previous action, a Delete of p, is finished: its cached copy is removed,
\* and is there again only as the copy of a reinsertion of p
PreviousActionFinished ==
    \A p \in Paths :
        rd.filesystem_scanner.current_action = Some(ActionDelete(p)) =>
            disk'[CacheName(p)] = IF OpensAction(ActionRead(p)) THEN disk[p] ELSE None

\* a planned reinsertion of a file that exists is served before anything else
PlannedReinsertionFirst ==
    \A p \in Paths :
        rd.filesystem_scanner.next_file_for_insertion = Some(p) /\ Exists(disk, p) =>
            ReturnsNewSource /\ OpensAction(ActionRead(p))

\* with nothing planned, a pending deletion is served before any insertion
PendingDeletionNext ==
    /\ ~IsSome(rd.filesystem_scanner.next_file_for_insertion)
    /\ are_deletions_enabled(rd.filesystem_scanner.streaming_mode)
    /\ DeletionCandidates /= {}
    => /\ ReturnsNewSource
       /\ \E p \in DeletionCandidates : OpensAction(ActionDelete(p))

\* a file that is not the planned one is inserted only when nothing is planned
\* and no known file needs deletion
NewFileLast ==
    \A p \in Paths :
        OpensAction(ActionRead(p)) =>
            \/ rd.filesystem_scanner.next_file_for_insertion = Some(p)
            \/ /\ ~IsSome(rd.filesystem_scanner.next_file_for_insertion)
               /\ NoDeletionDue
               /\ p \in InsertionCandidates(rd.filesystem_scanner, disk)

\* C31: next_action_determined first finishes the previous action (removing
\* the cached copy after a Delete), then serves a planned reinsertion before
\* anything else, then, in Streaming mode, serves a pending deletion before any
\* new insertion; a new file is inserted only when no reinsertion is planned
\* and no known file needs deletion.
ActionPriority ==
    [][AsksForNextAction /\ ~CallFails =>
          /\ PreviousActionFinished
          /\ PlannedReinsertionFirst
          /\ PendingDeletionNext
          /\ NewFileLast]_vars

\* the deletion of a known file was opened while a new file waits to be
\* inserted
ActionPriorityWitness ==
    /\ IsFsReader
    /\ LastKind = "NewSource"
    /\ \E p \in Paths :
          /\ rd.filesystem_scanner.current_action = Some(ActionDelete(p))
          /\ InsertionCandidates(rd.filesystem_scanner, disk) \ {p} /= {}

\* a reinsertion was served while another known file needed deletion
ReinsertionBeforeDeletion ==
    /\ IsFsReader
    /\ LastKind = "NewSource"
    /\ Len(events) > 1
    /\ \E p \in Paths :
          /\ scans[Len(scans) - 1].planned = Some(p)
          /\ rd.filesystem_scanner.current_action = Some(ActionRead(p))
    /\ DeletionCandidates /= {}

---------------------------------------------------------------------------
(* Properties of the object-store selection.                               *)

\* a call of read() of an object-store reader that calls stream_next_object
\* and returns
AsksForNextObject ==
    /\ IsS3Reader
    /\ phase' = phase
    /\ rd' /= rd \/ events' /= events
    /\ ScanIsDue
    /\ ~CallFails

\* key is minimal in (last_modified, key) among the listed keys not processed
EarliestUnprocessed(key) ==
    /\ key \in UnprocessedObjects(rd.s3_scanner, disk)
    /\ \A other \in UnprocessedObjects(rd.s3_scanner, disk) :
          TupleLeq(last_modified(disk, key), key, last_modified(disk, other), other)

\* the call streams key: it becomes the current object, it is entered into
\* processed_objects, and the listing in any order selects it
StreamsObject(key) ==
    /\ ReturnsNewSource
    /\ IsSome(rd'.s3_scanner.current_object)
    /\ expect_current_object_path(rd'.s3_scanner) = key
    /\ rd'.s3_scanner.processed_objects = rd.s3_scanner.processed_objects \cup {key}
    /\ \A contents \in IterationOrders(Bucket_list(disk)) :
          selected_object_loop(rd.s3_scanner, disk, None, contents) = Some(key)

\* the call finds nothing to stream
StreamsNothing ==
    /\ ~ReturnsNewSource
    /\ rd'.s3_scanner.current_object = None
    /\ rd'.s3_scanner.processed_objects = rd.s3_scanner.processed_objects

\* C32: stream_next_object always selects, among the listed keys not in
\* processed_objects and with a parsable last_modified, the one minimal in
\* (last_modified, key), adds it to processed_objects, and returns None when
\* there is none; without seek, no key is streamed twice by one scanner however
\* often the listing is repeated: a key streamed was not in processed_objects,
\* and a running scanner only adds to processed_objects.
ObjectSelection ==
    [][/\ AsksForNextObject =>
             IF UnprocessedObjects(rd.s3_scanner, disk) = {}
             THEN StreamsNothing
             ELSE \E key \in Paths : EarliestUnprocessed(key) /\ StreamsObject(key)
       /\ IsS3Reader /\ phase' = phase =>
             rd.s3_scanner.processed_objects \subseteq rd'.s3_scanner.processed_objects]_vars

\* one of two listed objects is being streamed and the other waits
ObjectSelectionWitness ==
    /\ IsS3Reader
    /\ LastKind = "NewSource"
    /\ Cardinality(Bucket_list(disk)) = 2
    /\ \E key \in Paths :
          /\ rd.s3_scanner.current_object /= None
          /\ expect_current_object_path(rd.s3_scanner) = key
          /\ rd.s3_scanner.processed_objects = {key}
          /\ UnprocessedObjects(rd.s3_scanner, disk) /= {}

\* a polling scanner that was not sought has streamed every listed object, one
\* of them was rewritten afterwards, and the scanner streams nothing
RewrittenObjectNotStreamedAgain ==
    /\ IsS3Reader
    /\ phase = "second"
    /\ frontier = Some(EmptyAntichain)
    /\ changes > 0
    /\ Bucket_list(disk) /= {}
    /\ UnprocessedObjects(rd.s3_scanner, disk) = {}
    /\ rd.s3_scanner.current_object = None

---------------------------------------------------------------------------
(* Properties of the sets the seeks leave behind.                          *)

\* the listed keys before path in (last_modified, key), and path itself; none
\* when path is not listed
ProcessedUpTo(path) ==
    IF path \in Bucket_list(disk)
    THEN {key \in Bucket_list(disk) :
            TupleLess(last_modified(disk, key), key, last_modified(disk, path), path)}
         \cup {path}
    ELSE {}

\* a restart that seeks an object-store reader to a position in path
SeeksToObject(path) ==
    /\ IsS3Reader
    /\ phase = "down" /\ phase' = "second"
    /\ IsSome(get_offset(Unwrap(frontier'), KeyEmpty))
    /\ Unwrap(get_offset(Unwrap(frontier'), KeyEmpty)).variant = "S3ObjectPosition"
    /\ Unwrap(get_offset(Unwrap(frontier'), KeyEmpty)).path = path

\* C33: after seek_to_object(path) with path present in the listing with
\* last_modified t, processed_objects equals exactly the set of listed keys
\* with (last_modified, key) < (t, path) together with path itself; when path
\* is not in the listing, processed_objects is empty; any earlier content of
\* processed_objects is discarded (the same set results from the scanner of a
\* running reader, whatever it has processed).
ObjectSeekSet ==
    [][/\ \A path \in Paths :
             SeeksToObject(path) =>
                rd'.s3_scanner.processed_objects = ProcessedUpTo(path)
       /\ IsS3Reader =>
             \A path \in Paths :
                seek_to_object(rd.s3_scanner, disk, path).processed_objects
                    = ProcessedUpTo(path)]_vars

\* a reader was sought to the later of two listed objects: both are processed
ObjectSeekSetWitness ==
    /\ IsS3Reader
    /\ phase = "second"
    /\ events = <<>>
    /\ seek_result = "Ok"
    /\ IsSome(rd.s3_scanner.current_object)
    /\ rd.s3_scanner.processed_objects = Paths
    /\ ProcessedUpTo(expect_current_object_path(rd.s3_scanner)) = Paths

\* a reader was sought to an object that is no longer listed
SoughtObjectNotListed ==
    /\ IsS3Reader
    /\ phase = "second"
    /\ events = <<>>
    /\ IsSome(rd.s3_scanner.current_object)
    /\ expect_current_object_path(rd.s3_scanner) \notin Bucket_list(disk)
    /\ rd.s3_scanner.processed_objects = {}

\* the matching files up to p in (mtime, path), each with its current mtime in
\* seconds
KnownUpTo(p) ==
    LET kept == {q \in get_matching_file_paths(disk) :
                    TupleLeq(Unwrap(disk[q]).mtime, q, Unwrap(disk[p]).mtime, p)}
    IN [q \in kept |-> as_secs(Unwrap(disk[q]).mtime)]

\* a restart that seeks a filesystem reader to a position in p
SeeksToFile(p) ==
    /\ IsFsReader
    /\ phase = "down" /\ phase' = "second"
    /\ IsSome(get_offset(Unwrap(frontier'), KeyEmpty))
    /\ Unwrap(get_offset(Unwrap(frontier'), KeyEmpty)).variant = "FilePosition"
    /\ Unwrap(get_offset(Unwrap(frontier'), KeyEmpty)).path = p

\* seek_to_file(p) applied to the scanner of a running reader
SoughtNow(p) == seek_to_file(rd.filesystem_scanner, disk, p).sc

\* the same, the scanner having no known files before
SoughtKnowingNothing(p) ==
    seek_to_file([rd.filesystem_scanner EXCEPT !.known_files = EmptyMap], disk, p).sc

\* C34: after seek_to_file(p) with p existing with mtime t, known_files equals
\* exactly the set of currently matching regular files with (mtime, path) <=
\* (t, p), each mapped to its current mtime in seconds, and current_action =
\* Read(p); any earlier content of known_files is discarded (sought now, the
\* scanner of a running reader knows what it would know had it known nothing).
FileSeekSet ==
    [][/\ \A p \in Paths :
             SeeksToFile(p) /\ Exists(disk, p) =>
                /\ rd'.filesystem_scanner.known_files = KnownUpTo(p)
                /\ rd'.filesystem_scanner.current_action = Some(ActionRead(p))
       /\ IsFsReader =>
             \A p \in Paths :
                Exists(disk, p) =>
                   /\ SoughtNow(p).known_files = SoughtKnowingNothing(p).known_files
                   /\ SoughtNow(p).current_action = Some(ActionRead(p))]_vars

\* a reader was sought to the later of two files: both are known, none is read
\* yet
FileSeekSetWitness ==
    /\ IsFsReader
    /\ phase = "second"
    /\ events = <<>>
    /\ seek_result = "Ok"
    /\ \E p \in Paths :
          /\ Exists(disk, p)
          /\ rd.filesystem_scanner.current_action = Some(ActionRead(p))
          /\ DOMAIN rd.filesystem_scanner.known_files = Paths
          /\ rd.filesystem_scanner.known_files = KnownUpTo(p)

---------------------------------------------------------------------------
(* Properties of the end of a reader's run.                                *)

\* the reader is one that polls its source for ever
ReaderPollsForEver ==
    \/ IsFsReader /\ rd.filesystem_scanner.streaming_mode = "Streaming"
    \/ IsKafkaReader
    \/ IsSqliteReader

\* the i-th result is Finished
IsFinished(i) == events[i].kind = "Finished"

StreamingReaderWaits ==
    /\ IsFsReader
    /\ rd.filesystem_scanner.streaming_mode = "Streaming"
    /\ phase = "first"
    /\ LastKind = "FinishedSource"
    /\ DOMAIN rd.filesystem_scanner.known_files = Paths
    /\ RunIsOver

---------------------------------------------------------------------------
(* Properties of the sources a filesystem reader opens for one path.       *)

\* the i-th result opens the insertion of p
OpensInsertion(i, p) ==
    events[i].kind = "NewSource" /\ scans[i].action = Some(ActionRead(p))

\* the results that open a source for p, in the order of their return
SourcesOpenedFor(p) ==
    {i \in 1..Len(events) : OpensInsertion(i, p) \/ OpensDeletion(i, p)}

\* p was inserted and not deleted since
InsertedNotDeleted(p) ==
    \E i \in SourcesOpenedFor(p) :
        /\ OpensInsertion(i, p)
        /\ \A j \in SourcesOpenedFor(p) : j <= i

\* the sources opened for p alternate, starting with an insertion
Alternates(p) ==
    \A i \in SourcesOpenedFor(p) :
        LET earlier == {j \in SourcesOpenedFor(p) : j < i}
        IN IF earlier = {}
           THEN OpensInsertion(i, p)
           ELSE LET previous == CHOOSE j \in earlier : \A k \in earlier : k <= j
                IN OpensInsertion(i, p) <=> OpensDeletion(previous, p)

---------------------------------------------------------------------------
(* Properties of the assertions of the filesystem scanner.                 *)

\* every known file has an entry in cached_metadata
KnownFilesHaveMetadata ==
    DOMAIN rd.filesystem_scanner.known_files
        \subseteq DOMAIN rd.filesystem_scanner.cached_metadata

\* no call of read() has panicked
NoPanic == \A i \in 1..Len(events) : events[i].kind /= "Panic"

\* every Data event was built with current_action set
DataHasAction ==
    \A i \in 1..Len(events) : events[i].kind = "Data" => IsSome(scans[i].action)

\* C37: in every state reachable by seek and read calls and filesystem changes
\* in Streaming mode, every path in known_files has an entry in
\* cached_metadata, so that the expect in next_deletion_entry cannot panic, and
\* whenever a Data event is built current_action is set.
ScannerAssertionsHold ==
    StreamingScannerRuns => KnownFilesHaveMetadata /\ NoPanic /\ DataHasAction

\* the same of a reader that was never sought
ScannerAssertionsHoldWithoutSeek ==
    StreamingScannerRuns /\ phase = "first" =>
        KnownFilesHaveMetadata /\ NoPanic /\ DataHasAction

\* Data events are built with current_action set, sought or not
DataIsBuiltWithAction == IsFsReader => DataHasAction

\* a reader that was sought has panicked in next_deletion_entry
SoughtReaderPanics ==
    /\ StreamingScannerRuns
    /\ phase = "second"
    /\ LastKind = "Panic"

---------------------------------------------------------------------------
(* Properties of what a deletion retracts.                                 *)

\* the payloads of the Data events returned from the j-th result on, up to the
\* next result that is not a Data event
RECURSIVE PayloadsFrom(_)
PayloadsFrom(j) ==
    IF j > Len(events) \/ events[j].kind /= "Data" THEN <<>>
    ELSE <<events[j].payload>> \o PayloadsFrom(j + 1)

\* the source opened by the i-th result has been read to its end
SourceClosed(i) == i + Len(PayloadsFrom(i + 1)) < Len(events)

\* the j-th result opens the most recent insertion of p before the i-th
MostRecentInsertion(j, i, p) ==
    /\ j < i
    /\ OpensInsertion(j, p)
    /\ \A k \in (j + 1)..(i - 1) : ~OpensInsertion(k, p)

\* C38: for every file p, the bytes returned in the Data events of Delete(p)
\* are exactly the bytes returned in the Data events of the most recent
\* Insert(p), even when another process rewrites or removes p at any moment
\* between the scanner's cache copy and the end of reading p.
DeleteRetractsInsert ==
    IsFsReader =>
        \A p \in Paths : \A i \in 1..Len(events) :
            OpensDeletion(i, p) /\ SourceClosed(i) =>
                \E j \in 1..Len(events) :
                    /\ MostRecentInsertion(j, i, p)
                    /\ PayloadsFrom(i + 1) = PayloadsFrom(j + 1)

\* a deletion was read to its end and returned other bytes than the insertion
\* it retracts
DeleteRetractsOtherBytes ==
    /\ IsFsReader
    /\ \E p \in Paths : \E i, j \in 1..Len(events) :
          /\ OpensDeletion(i, p) /\ SourceClosed(i)
          /\ MostRecentInsertion(j, i, p)
          /\ PayloadsFrom(i + 1) /= PayloadsFrom(j + 1)

\* a deletion was read to its end
DeletionReadToEnd ==
    /\ IsFsReader
    /\ \E p \in Paths : \E i \in 1..Len(events) : OpensDeletion(i, p) /\ SourceClosed(i)

---------------------------------------------------------------------------
(* Properties of the snapshots of the embedded-SQL reader.                 *)

\* the map the Data diffs among the results make of state: an Insert adds its
\* row under its rowid, a Delete removes the rowid
RECURSIVE ApplyDiffs(_, _)
ApplyDiffs(state, results) ==
    IF results = <<>> THEN state
    ELSE LET result == Head(results)
             rowid == Unwrap(result.payload[1])[1]
         IN ApplyDiffs(IF result.kind /= "Data" THEN state
                       ELSE IF result.event = "Insert"
                       THEN MapInsert(state, rowid, result.payload[2])
                       ELSE MapRemove(state, rowid),
                       Tail(results))

\* what read() has returned and what it is still to return of the last reload
ReturnedAndQueued == events \o rd.queued_updates

\* the place of the first result after place m that is no Data event
EndOfData(all, m) ==
    IF \E e \in (m + 1)..Len(all) : all[e].kind /= "Data"
    THEN CHOOSE e \in (m + 1)..Len(all) :
            all[e].kind /= "Data" /\ \A k \in (m + 1)..(e - 1) : all[k].kind = "Data"
    ELSE Len(all) + 1

\* the place of the last result before place n that is no Data event
StartOfData(all, n) ==
    IF \E m \in 1..(n - 1) : all[m].kind /= "Data"
    THEN CHOOSE m \in 1..(n - 1) :
            all[m].kind /= "Data" /\ \A k \in (m + 1)..(n - 1) : all[k].kind = "Data"
    ELSE 0

\* each reload that load_table completed is NewSource, then its Data events,
\* then FinishedSource with commit_allowed = true exactly when there was a
\* Data event
ReloadsAreFramed ==
    LET all == ReturnedAndQueued IN
    /\ Cardinality({n \in 1..Len(events) : events[n].kind = "NewSource"}) = Len(calls)
    /\ \A n \in 1..Len(all) :
        /\ all[n].kind \in {"NewSource", "Data", "FinishedSource", "Err"}
        /\ all[n].kind = "NewSource" /\ EndOfData(all, n) > n + 1 =>
              /\ EndOfData(all, n) <= Len(all)
              /\ all[EndOfData(all, n)] = FinishedSource(TRUE)
        /\ all[n].kind = "FinishedSource" =>
              /\ all[n].commit_allowed
              /\ StartOfData(all, n) \in 1..(n - 2)
              /\ all[StartOfData(all, n)].kind = "NewSource"

ReloadWithoutData ==
    /\ IsSqliteReader
    /\ Len(events) >= 2
    /\ events[Len(events)].kind = "NewSource"
    /\ events[Len(events) - 1].kind = "NewSource"
    /\ rd.queued_updates = <<>>

\* a reload failed after its first row, the next one completed, and the diffs
\* returned make the table as it is
SnapshotAfterFailedReload ==
    /\ IsSqliteReader
    /\ Len(events) >= 4
    /\ events[1].kind = "Err"
    /\ events[2].kind = "Data"
    /\ events[3].kind = "NewSource"
    /\ events[Len(events)].kind = "FinishedSource"
    /\ rd.queued_updates = <<>>
    /\ ApplyDiffs(EmptyMap, events) = source.table

---------------------------------------------------------------------------
(* The spacing of the commits of DeltaTableWriter, checked under SpecDelta. *)

\* call i is a flush that was not forced and has committed a batch
CommitsUnforced(i) ==
    /\ calls[i].method = "flush"
    /\ ~calls[i].forced
    /\ Committed(i)

\* C40: with min_commit_frequency = Some(f), the elapsed time that gates a
\* flush that is not forced is measured from the most recent commit, and from
\* the construction before the first commit, so that two commits made by
\* flushes that are not forced are at least f apart.
CommitSpacing ==
    IsDeltaTableWriter /\ IsSome(rd.min_commit_frequency) =>
        /\ \A i \in 1..Len(calls) :
              CommitsUnforced(i) =>
                 ElapsedSinceLastCommit(i) >= Unwrap(rd.min_commit_frequency)
        /\ \A i, j \in 1..Len(calls) :
              i < j /\ CommitsUnforced(i) /\ CommitsUnforced(j) =>
                 calls[j].now - calls[i].now >= Unwrap(rd.min_commit_frequency)

\* the first commit of a writer with a min_commit_frequency is made by a flush
\* that is not forced, that much time after the construction
FirstCommitWaits ==
    /\ IsDeltaTableWriter
    /\ IsSome(rd.min_commit_frequency)
    /\ \E i \in 1..Len(calls) :
         /\ CommitsUnforced(i)
         /\ LastCommitBefore(i) = 0
         /\ calls[i].now = Unwrap(rd.min_commit_frequency)

=========================================================================
